---- MODULE Spec2Model ----
\* Host side of biscuit-wasm-go: the guest invocation facade (KeyPair,
\* PrivateKey, PublicKey wrappers over WasmEnv) and the import stub builder,
\* together with the part of the guest (allocator, key exports, linear memory)
\* the host code talks to.
EXTENDS Integers, Sequences, FiniteSets, TLC

\* ---------------------------------------------------------------- bounds
\* size of the guest's linear memory, in bytes
MemSize == 19
\* cap on the length of ExternrefTableMirror
MaxTable == 6
\* number of distinct keys the guest can generate per algorithm
NumKeys == 1
\* number of imports of the compiled module
MaxImports == 3
\* number of fields of an error map the guest reports
MaxFields == 2
\* number of calls in a session that append to the handle table
MaxInterns == 2
\* number of calls in a session that record a typed array
MaxRecords == 2
MaxPush == 2
\* width in bits of a handle or guest offset: the uint32 of the code, narrowed
\* so that sums of two words stay within the integers the model checker has
WordBits == 29

\* ---------------------------------------------------------------- program constants
\* size := uint64(16), the return area of privatekey_fromString
RetAreaSize == 16
\* env.Malloc(8), the return area of privatekey_toString
StringRetAreaSize == 8

VARIABLES
    exports,               \* names the instantiated guest module exports (and "memory")
    kp,                    \* KeyPair.ptr of the key pair object
    priv,                  \* PrivateKey.ptr of the private key object
    pub,                   \* PublicKey.ptr of the public key object
    heap,                  \* guest: blocks handed out by __wbindgen_malloc and not freed
    mem,                   \* guest: linear memory, one byte per address
    ExternrefTableMirror,  \* host: mirror of the externref table
    invalidFree,           \* guest: __wbindgen_free was called on something not allocated
    crashed,               \* the host process panicked
    last,                  \* what the last facade operation returned
    calls,                 \* guest exports called by the last facade operation
    hist,                  \* history: the string the private key object was built from
    imports,               \* the compiled module's import list
    bind,                  \* outcome of InstantiateImportStubs
    boot,                  \* outcome of InitWasm
    taLen,                 \* host: typed-array handle -> recorded length
    taHandleNext,          \* host: next synthetic typed-array handle
    globalObjHandle,       \* host: cached handle of the global object, 0 if none yet
    cryptoObjHandle,       \* host: cached handle of the crypto object, 0 if none yet
    intBits,               \* host: width of Go's int on the build, 32 or 64 bits
    ret,                   \* the last call of an import by the guest and its outcome
    trace                  \* history: handles the stubs have returned so far

vars == <<exports, kp, priv, pub, heap, mem, ExternrefTableMirror,
          invalidFree, crashed, last, calls, hist, imports, bind, boot,
          taLen, taHandleNext, globalObjHandle, cryptoObjHandle, intBits, ret, trace>>

facadeVars == <<exports, kp, priv, pub, heap, mem, ExternrefTableMirror,
                invalidFree, crashed, last, calls, hist>>


stubVars == <<taLen, taHandleNext, globalObjHandle, cryptoObjHandle, intBits, ret, trace>>

\* ---------------------------------------------------------------- errors
\* A Go error: nil, or a message. The message is kept as the words the format
\* string contributes followed by the bytes of a guest-provided text.
NoError == [nil |-> TRUE, words |-> <<>>, text |-> <<>>]

Errorf(words) == [nil |-> FALSE, words |-> words, text |-> <<>>]

\* fmt.Errorf("<prefix>: %w", err)
Wrap(prefix, err) == [nil |-> FALSE, words |-> <<prefix>> \o err.words, text |-> err.text]

\* errors.New(s) for a string read from the guest
ErrorsNew(s) == [nil |-> FALSE, words |-> <<>>, text |-> s]

\* the error wazero returns when the guest traps
WasmTrap == Errorf(<<"wasm error: unreachable">>)

\* ---------------------------------------------------------------- linear memory
Addrs == 0 .. (MemSize - 1)

\* api.Memory.Read(offset, byteCount)
MemRead(m, ptr, n) ==
    IF ptr + n <= MemSize
    THEN [ok |-> TRUE, bytes |-> [i \in 1 .. n |-> m[ptr + i - 1]]]
    ELSE [ok |-> FALSE, bytes |-> <<>>]

\* api.Memory.Write(offset, bytes)
MemWrite(m, ptr, bytes) ==
    IF ptr + Len(bytes) <= MemSize
    THEN [ok |-> TRUE,
          mem |-> [a \in Addrs |-> IF a >= ptr /\ a < ptr + Len(bytes)
                                   THEN bytes[a - ptr + 1] ELSE m[a]]]
    ELSE [ok |-> FALSE, mem |-> m]

\* binary.LittleEndian.Uint32(b)
LittleEndianUint32(b) == b[1] + 256 * b[2] + 65536 * b[3] + 16777216 * b[4]

\* the guest stores a 32-bit word (wasm is little-endian)
StoreU32(v) == <<v % 256, (v \div 256) % 256, (v \div 65536) % 256, (v \div 16777216) % 256>>

\* ---------------------------------------------------------------- guest: allocator
\* The world the guest exports act on; the facade threads it through a call.
World == [heap |-> heap, mem |-> mem, table |-> ExternrefTableMirror,
          bad |-> invalidFree, calls |-> <<>>]

FreeAt(h, p, n) ==
    /\ p + n <= MemSize
    /\ \A b \in h : p + n <= b.ptr \/ b.ptr + b.size <= p

RECURSIVE FirstFit(_, _, _)
\* the lowest address from p on where n bytes are free, 0 if there is none
FirstFit(h, n, p) ==
    IF p + n > MemSize THEN 0
    ELSE IF FreeAt(h, p, n) THEN p
    ELSE FirstFit(h, n, p + 1)

\* __wbindgen_malloc(size, align): a zero-sized request returns the alignment
\* and allocates nothing; otherwise the lowest free block; 0 when memory is
\* exhausted (the guest then traps).
GuestAlloc(h, n, who) ==
    IF n = 0 THEN [ptr |-> 1, heap |-> h]
    ELSE LET p == FirstFit(h, n, 1)
         IN IF p = 0 THEN [ptr |-> 0, heap |-> h]
            ELSE [ptr |-> p, heap |-> h \cup {[ptr |-> p, size |-> n, by |-> who]}]

\* __wbindgen_free(ptr, size, align): a zero-sized free does nothing; the
\* allocator reuses a released block for its own bookkeeping, so its bytes are
\* not kept (they read as zero)
GuestFree(w, ptr, n) ==
    IF n = 0 THEN w
    ELSE IF \E b \in w.heap : b.ptr = ptr /\ b.size = n
    THEN [w EXCEPT !.heap = {b \in @ : ~(b.ptr = ptr /\ b.size = n)},
                   !.mem = [a \in Addrs |-> IF a >= ptr /\ a < ptr + n THEN 0 ELSE @[a]]]
    ELSE [w EXCEPT !.bad = TRUE]

\* ---------------------------------------------------------------- WasmEnv
Logged(w, fn, args) == [w EXCEPT !.calls = Append(@, [fn |-> fn, args |-> args])]

\* WasmEnv.GetFunction
GetFunction(name) ==
    IF name \in exports THEN NoError
    ELSE Errorf(<<"exported function", name, "not found">>)

\* WasmEnv.GetMemory
GetMemory ==
    IF "memory" \in exports THEN NoError
    ELSE Errorf(<<"exported memory", "default", "not found">>)

\* WasmEnv.Malloc; trap: the guest traps inside the allocator
Malloc(w, length, trap) ==
    IF ~GetFunction("__wbindgen_malloc").nil
    THEN [err |-> GetFunction("__wbindgen_malloc"), ptr |-> 0, w |-> w]
    ELSE LET w1 == Logged(w, "__wbindgen_malloc", <<length, 1>>)
             a  == GuestAlloc(w.heap, length, "host")
         IN IF trap \/ a.ptr = 0
            THEN [err |-> WasmTrap, ptr |-> 0, w |-> w1]
            ELSE [err |-> NoError, ptr |-> a.ptr, w |-> [w1 EXCEPT !.heap = a.heap]]

\* WasmEnv.Free
Free(w, ptr, length) ==
    IF ~GetFunction("__wbindgen_free").nil
    THEN [err |-> GetFunction("__wbindgen_free"), w |-> w]
    ELSE [err |-> NoError,
          w |-> GuestFree(Logged(w, "__wbindgen_free", <<ptr, length, 1>>), ptr, length)]

\* ---------------------------------------------------------------- handle table
\* An entry of ExternrefTableMirror (a Go `any`): t names the dynamic type.
Entry(t, b, n, s, m) == [t |-> t, b |-> b, n |-> n, s |-> s, m |-> m]

Undefined == Entry("undefined", FALSE, 0, <<>>, <<>>)

JsNull == Entry("null", FALSE, 0, <<>>, <<>>)

Bool(b) == Entry("bool", b, 0, <<>>, <<>>)

Number(n) == Entry("number", FALSE, n, <<>>, <<>>)

String(s) == Entry("string", FALSE, 0, s, <<>>)

\* map[string]any, as the list of its (key, value) pairs
Map(m) == Entry("map", FALSE, 0, <<>>, m)

\* the append every interning stub performs: slot 0 is reserved on first use
Intern(table, v) ==
    IF Len(table) = 0 THEN <<Undefined, v>> ELSE Append(table, v)

\* __wbindgen_init_externref_table
InitExternrefTable(table) ==
    LET t0 == IF Len(table) = 0 THEN <<Undefined>> ELSE table
    IN t0 \o <<Undefined, JsNull, Bool(TRUE), Bool(FALSE)>>


RECURSIVE FormatV(_), FormatItems(_, _)
\* fmt.Sprintf("%v", value): a string as it is, a number in decimal, a bool,
\* JsNull{} as "{}", a slice as "[a b]", a map as "map[k:v]" (the maps of a
\* session hold at most one key, so the key order does not show), nil as "<nil>"
FormatV(e) ==
    CASE e.t = "string" -> e.s
      [] e.t = "number" -> <<48 + e.n>>
      [] e.t = "bool" -> IF e.b THEN <<116, 114, 117, 101>> ELSE <<102, 97, 108, 115, 101>>
      [] e.t = "null" -> <<123, 125>>
      [] e.t = "array" -> <<91>> \o FormatItems(e.m, 1) \o <<93>>
      [] e.t = "map" -> <<109, 97, 112, 91>> \o FormatItems(e.m, 1) \o <<93>>
      [] OTHER -> <<60, 110, 105, 108, 62>>

\* the elements of a slice, or the key:value pairs of a map, separated by spaces
FormatItems(items, i) ==
    IF i > Len(items) THEN <<>>
    ELSE (IF i > 1 THEN <<32>> ELSE <<>>)
         \o (IF "k" \in DOMAIN items[i]
             THEN items[i].k \o <<58>> \o FormatV(items[i].v)
             ELSE FormatV(items[i]))
         \o FormatItems(items, i + 1)

Perms(n) == {f \in [1 .. n -> 1 .. n] : \A i, j \in 1 .. n : f[i] = f[j] => i = j}

RECURSIVE FormatFields(_, _, _)
\* ret += fmt.Sprintf("%s: %v", key, value) over the map in iteration order
FormatFields(m, order, i) ==
    IF i > Len(m) THEN <<>>
    ELSE m[order[i]].k \o <<58, 32>> \o FormatV(m[order[i]].v) \o FormatFields(m, order, i + 1)

GetErrorMutant(table, idx, order) ==
    IF idx >= Len(table) THEN [panic |-> TRUE, s |-> <<>>, err |-> NoError]
    ELSE LET data == table[idx + 1]
         IN [panic |-> FALSE, s |-> <<>>, err |-> Errorf(<<"unknown error type">>)]

\* WasmEnv.GetError; order: the iteration order Go picks for the map.
\* Indexing the slice past its end is a run-time panic.
GetError(table, idx, order) ==
    IF idx >= Len(table) THEN [panic |-> TRUE, s |-> <<>>, err |-> NoError]
    ELSE LET data == table[idx + 1]
         IN CASE data.t = "string" -> [panic |-> FALSE, s |-> data.s, err |-> NoError]
              [] data.t = "map" ->
                   LET InMap(i) == i <= Len(data.m)
                   IN [panic |-> FALSE, err |-> NoError,
                       s |-> FormatFields(data.m, SelectSeq(order, InMap), 1)]
              [] OTHER -> [panic |-> FALSE, s |-> <<>>, err |-> Errorf(<<"unknown error type">>)]

\* ---------------------------------------------------------------- guest: key exports
\* SignatureAlgorithm: Ed25519 = 0, Secp256r1 = 1
Algorithms == {0, 1}

Keys == 1 .. NumKeys

\* the text of a private key: an algorithm tag and the key material
PrivString(alg, key) == <<65 + alg, 48 + key>>

ValidStrings == {PrivString(a, k) : a \in Algorithms, k \in Keys}

\* strings the guest's parser rejects
MalformedStrings == {<<>>, <<63>>}

Kinds == <<"keypair", "private", "public">>

KindIdx(kind) == CHOOSE i \in 1 .. 3 : Kinds[i] = kind

\* A guest handle stands for one guest object; the guest is taken to hand out
\* one handle per (kind, algorithm, key), never 0.
Handle(kind, alg, key) == KindIdx(kind) + 3 * alg + 6 * (key - 1)

HandleAlg(h) == ((h - 1) \div 3) % 2

HandleKey(h) == ((h - 1) \div 6) + 1

IsObj(h, kind) == h >= 1 /\ h <= 6 * NumKeys /\ Kinds[((h - 1) % 3) + 1] = kind

\* a guest call: it traps, or returns results and leaves a new world
Trapped(w) == [trap |-> TRUE, results |-> <<>>, reported |-> FALSE, w |-> w]

Returned(w, results) == [trap |-> FALSE, results |-> results, reported |-> FALSE, w |-> w]

\* the guest boxes an object and returns its handle
NewObj(w, kind, alg, key) == Returned(w, <<Handle(kind, alg, key)>>)

\* export keypair_new(algorithm) -> handle; key: the key the guest generates
Guest_keypair_new(w, alg, key, trap) ==
    IF trap \/ alg \notin Algorithms THEN Trapped(w) ELSE NewObj(w, "keypair", alg, key)

\* export keypair_getPublicKey(handle) -> handle
Guest_keypair_getPublicKey(w, h, trap) ==
    IF trap \/ ~IsObj(h, "keypair") THEN Trapped(w)
    ELSE NewObj(w, "public", HandleAlg(h), HandleKey(h))

\* export keypair_getPrivateKey(handle) -> handle
Guest_keypair_getPrivateKey(w, h, trap) ==
    IF trap \/ ~IsObj(h, "keypair") THEN Trapped(w)
    ELSE NewObj(w, "private", HandleAlg(h), HandleKey(h))

\* export keypair_fromPrivateKey(handle) -> handle
Guest_keypair_fromPrivateKey(w, h, trap) ==
    IF trap \/ ~IsObj(h, "private") THEN Trapped(w)
    ELSE NewObj(w, "keypair", HandleAlg(h), HandleKey(h))

\* export privatekey_toString(out, handle): the guest allocates the string
\* and stores (ptr, len) in the return area
Guest_privatekey_toString(w, out, h, trap) ==
    IF trap \/ ~IsObj(h, "private") THEN Trapped(w)
    ELSE LET s  == PrivString(HandleAlg(h), HandleKey(h))
             a  == GuestAlloc(w.heap, Len(s), "guest")
             m1 == MemWrite(w.mem, a.ptr, s)
             m2 == MemWrite(m1.mem, out, StoreU32(a.ptr) \o StoreU32(Len(s)))
         IN IF a.ptr = 0 \/ ~m1.ok \/ ~m2.ok THEN Trapped(w)
            ELSE Returned([w EXCEPT !.heap = a.heap, !.mem = m2.mem], <<>>)

\* export privatekey_fromString(out, ptr, len): on success the guest stores
\* (handle, 0, 0); on a rejected input it hands an error value to the host
\* stubs and stores (0, error handle, 1). report: how the guest reports.
Guest_privatekey_fromString(w, out, ptr, len, trap, report) ==
    LET r == MemRead(w.mem, ptr, len)
    IN IF trap \/ ~r.ok THEN Trapped(w)
       ELSE IF r.bytes \in ValidStrings
       THEN LET alg == CHOOSE a \in Algorithms : \E k \in Keys : r.bytes = PrivString(a, k)
                key == CHOOSE k \in Keys : r.bytes = PrivString(alg, k)
                o   == NewObj(w, "private", alg, key)
                m   == MemWrite(o.w.mem, out,
                                StoreU32(o.results[1]) \o StoreU32(0) \o StoreU32(0))
            IN IF o.trap \/ ~m.ok THEN Trapped(w)
               ELSE Returned([o.w EXCEPT !.mem = m.mem], <<>>)
       ELSE LET t == IF report.dangling THEN w.table ELSE Intern(w.table, report.entry)
                e == IF report.dangling THEN Len(w.table) ELSE Len(t) - 1
                m == MemWrite(w.mem, out, StoreU32(0) \o StoreU32(e) \o StoreU32(1))
            IN IF ~m.ok \/ Len(t) > MaxTable THEN Trapped(w)
               ELSE [Returned([w EXCEPT !.mem = m.mem, !.table = t], <<>>)
                     EXCEPT !.reported = TRUE]

\* error values the guest hands over: a string, a field map, something else
ErrEntries ==
    {String(t) : t \in {<<101>>, <<101, 114>>}}
    \cup {Map(<<[k |-> <<107>>, v |-> Number(1)], [k |-> <<108>>, v |-> String(<<101>>)]>>),
          Number(7)}

\* dangling: the handle the guest stores has no entry in the host's mirror
Reports ==
    {[dangling |-> FALSE, entry |-> e] : e \in ErrEntries}
    \cup {[dangling |-> TRUE, entry |-> Undefined]}

NoReport == [dangling |-> FALSE, entry |-> Undefined]

\* ---------------------------------------------------------------- facade
\* What a facade operation leaves behind: the error and values it returns (or
\* a panic), the return area and string buffer it used, and the world.
Out(err, value, key, w) ==
    [err |-> err, panic |-> FALSE, value |-> value, key |-> key, bound |-> FALSE,
     area |-> 0, strPtr |-> 0, strLen |-> 0, report |-> NoReport, w |-> w]

Fail(err, w) == Out(err, <<>>, 0, w)

Panic(w) == [Fail(NoError, w) EXCEPT !.panic = TRUE]

\* WasmEnv.Call of an export: the error wazero returns for a trap
CallErr(c) == IF c.trap THEN WasmTrap ELSE NoError

KeyPair_NewMutant(w, alg, key, trap) ==
    IF ~GetFunction("keypair_new").nil THEN Fail(GetFunction("keypair_new"), w)
    ELSE LET c  == Guest_keypair_new(Logged(w, "keypair_new", <<alg>>), alg, key, trap)
         IN IF ~CallErr(c).nil THEN Fail(Wrap("keypair_new failed:", CallErr(c)), c.w)
            ELSE IF Len(c.results) = 0
            THEN Fail(Errorf(<<"no result returned from keypair_new">>), c.w)
            ELSE Out(NoError, <<>>, c.results[1], c.w)

\* KeyPair.New; bound: self.ptr was assigned, key: the value assigned
KeyPair_New(w, alg, key, trap) ==
    IF ~GetFunction("keypair_new").nil THEN Fail(GetFunction("keypair_new"), w)
    ELSE LET c  == Guest_keypair_new(Logged(w, "keypair_new", <<alg>>), alg, key, trap)
         IN IF ~CallErr(c).nil THEN Fail(Wrap("keypair_new failed:", CallErr(c)), c.w)
            ELSE IF Len(c.results) = 0
            THEN Fail(Errorf(<<"no result returned from keypair_new">>), c.w)
            ELSE [Out(NoError, <<>>, c.results[1], c.w) EXCEPT !.bound = TRUE]

\* KeyPair.GetPublicKey. The test after GetFunction is `function != nil`: when
\* the export exists the method returns PublicKey{} with the nil error of
\* GetFunction; when it does not, Call is invoked on a nil api.Function.
KeyPair_GetPublicKey(w, ptr, trap) ==
    IF ptr = 0 THEN Fail(Errorf(<<"keypair", "not initialized">>), w)
    ELSE IF GetFunction("keypair_getPublicKey").nil
    THEN Out(GetFunction("keypair_getPublicKey"), <<>>, 0, w)
    ELSE Panic(w)

\* KeyPair.GetPrivateKey
KeyPair_GetPrivateKey(w, ptr, trap) ==
    IF ptr = 0 THEN Fail(Errorf(<<"keypair", "not initialized">>), w)
    ELSE IF ~GetFunction("keypair_getPrivateKey").nil
    THEN Fail(GetFunction("keypair_getPrivateKey"), w)
    ELSE LET c == Guest_keypair_getPrivateKey(Logged(w, "keypair_getPrivateKey", <<ptr>>),
                                              ptr, trap)
         IN IF ~CallErr(c).nil THEN Fail(CallErr(c), c.w)
            ELSE Out(NoError, <<>>, c.results[1], c.w)

\* KeyPair.FromPrivateKey
KeyPair_FromPrivateKey(w, privPtr, trap) ==
    IF ~GetFunction("keypair_fromPrivateKey").nil
    THEN Fail(GetFunction("keypair_fromPrivateKey"), w)
    ELSE LET c == Guest_keypair_fromPrivateKey(
                      Logged(w, "keypair_fromPrivateKey", <<privPtr>>), privPtr, trap)
         IN IF ~CallErr(c).nil THEN Fail(CallErr(c), c.w)
            ELSE IF Len(c.results) = 0
            THEN Fail(Errorf(<<"no result returned from keypair_fromPrivateKey">>), c.w)
            ELSE [Out(NoError, <<>>, c.results[1], c.w) EXCEPT !.bound = TRUE]

\* PublicKey.ToString
PublicKey_ToString(w, ptr) ==
    IF ptr = 0 THEN Fail(Errorf(<<"public key", "not initialized">>), w)
    ELSE IF "public_key_toString" \notin exports
    THEN Fail(Errorf(<<"exported function", "public_key_toString", "not found">>), w)
    ELSE Out(NoError, <<>>, 0, w)

GetStringValueFromPointerMutant(w, ptr) ==
    LET buf == MemRead(w.mem, ptr, 8)
    IN IF ~buf.ok THEN Fail(Errorf(<<"cannot read return area">>), w)
       ELSE LET strPtr   == LittleEndianUint32(SubSeq(buf.bytes, 1, 4))
                strLen   == LittleEndianUint32(SubSeq(buf.bytes, 5, 8))
                strBytes == MemRead(w.mem, strPtr, strLen - 1)
                f        == Free(w, strPtr, strLen)
            IN IF ~strBytes.ok THEN Panic(w)
               ELSE IF ~f.err.nil THEN Fail(f.err, f.w)
               ELSE [Out(NoError, strBytes.bytes, 0, f.w)
                     EXCEPT !.strPtr = strPtr, !.strLen = strLen]

\* WasmEnv.GetStringValueFromPointer
GetStringValueFromPointer(w, ptr) ==
    LET buf == MemRead(w.mem, ptr, 8)
    IN IF ~buf.ok THEN Fail(Errorf(<<"cannot read return area">>), w)
       ELSE LET strPtr   == LittleEndianUint32(SubSeq(buf.bytes, 1, 4))
                strLen   == LittleEndianUint32(SubSeq(buf.bytes, 5, 8))
                strBytes == MemRead(w.mem, strPtr, strLen)
                f        == Free(w, strPtr, strLen)
            IN IF ~strBytes.ok THEN Panic(w)
               ELSE IF ~f.err.nil THEN Fail(f.err, f.w)
               ELSE [Out(NoError, strBytes.bytes, 0, f.w)
                     EXCEPT !.strPtr = strPtr, !.strLen = strLen]

PrivateKey_ToStringMutant(w, ptr, fault) ==
    IF ~GetFunction("privatekey_toString").nil
    THEN Fail(GetFunction("privatekey_toString"), w)
    ELSE LET o == Malloc(w, StringRetAreaSize, fault = "malloc_ret")
         IN IF ~o.err.nil THEN Fail(o.err, o.w)
            ELSE LET c == Guest_privatekey_toString(
                              Logged(o.w, "privatekey_toString", <<o.ptr, ptr>>),
                              o.ptr, ptr, fault = "call")
                 IN IF ~CallErr(c).nil THEN [Fail(CallErr(c), c.w) EXCEPT !.area = o.ptr]
                    ELSE [GetStringValueFromPointer(c.w, o.ptr) EXCEPT !.area = o.ptr]

\* PrivateKey.ToString; fault: the guest call that traps, if any
PrivateKey_ToString(w, ptr, fault) ==
    IF ptr = 0 THEN Fail(Errorf(<<"private key", "not initialized">>), w)
    ELSE IF ~GetFunction("privatekey_toString").nil
    THEN Fail(GetFunction("privatekey_toString"), w)
    ELSE LET o == Malloc(w, StringRetAreaSize, fault = "malloc_ret")
         IN IF ~o.err.nil THEN Fail(o.err, o.w)
            ELSE LET c == Guest_privatekey_toString(
                              Logged(o.w, "privatekey_toString", <<o.ptr, ptr>>),
                              o.ptr, ptr, fault = "call")
                 IN IF ~CallErr(c).nil THEN [Fail(CallErr(c), c.w) EXCEPT !.area = o.ptr]
                    ELSE [GetStringValueFromPointer(c.w, o.ptr) EXCEPT !.area = o.ptr]

FreeBothMutant(w, retPtr, strPtr, n) == Free(w, retPtr, RetAreaSize).w

\* the two deferred-by-hand releases of FromString: `_ = Free(retPtr, size)`
\* then `_ = Free(strPtr, len(bytes))`
FreeBoth(w, retPtr, strPtr, n) == Free(Free(w, retPtr, RetAreaSize).w, strPtr, n).w

FromStringResultMutant(w, buf, order) ==
    LET valuePtr == LittleEndianUint32(SubSeq(buf, 1, 4))
        errPtr   == LittleEndianUint32(SubSeq(buf, 5, 8))
        isErr    == LittleEndianUint32(SubSeq(buf, 9, 12))
        e        == GetError(w.table, errPtr, order)
    IN IF isErr # 0
       THEN IF e.panic THEN Panic(w)
            ELSE IF ~e.err.nil THEN Fail(Wrap("cannot get error string:", e.err), w)
            ELSE [Fail(ErrorsNew(e.s), w) EXCEPT !.bound = TRUE, !.key = valuePtr]
       ELSE [Out(NoError, <<>>, valuePtr, w) EXCEPT !.bound = TRUE]

\* PrivateKey.FromString from the decoding of the result triple on
FromStringResult(w, buf, order) ==
    LET valuePtr == LittleEndianUint32(SubSeq(buf, 1, 4))
        errPtr   == LittleEndianUint32(SubSeq(buf, 5, 8))
        isErr    == LittleEndianUint32(SubSeq(buf, 9, 12))
        e        == GetError(w.table, errPtr, order)
    IN IF isErr # 0
       THEN IF e.panic THEN Panic(w)
            ELSE IF ~e.err.nil THEN Fail(Wrap("cannot get error string:", e.err), w)
            ELSE Fail(ErrorsNew(e.s), w)
       ELSE [Out(NoError, <<>>, valuePtr, w) EXCEPT !.bound = TRUE]

\* PrivateKey.FromString; fault: the guest call that traps, if any; report: how
\* the guest reports a rejected input; order: the map iteration order
PrivateKey_FromString(w, data, fault, report, order) ==
    IF ~GetFunction("privatekey_fromString").nil
    THEN Fail(GetFunction("privatekey_fromString"), w)
    ELSE IF ~GetMemory.nil THEN Fail(Errorf(<<"exported memory not found">>), w)
    ELSE LET r == Malloc(w, RetAreaSize, fault = "malloc_ret")
         IN IF ~r.err.nil THEN Fail(Wrap("malloc for return area failed:", r.err), r.w)
            ELSE LET st == Malloc(r.w, Len(data), fault = "malloc_str")
                 IN IF ~st.err.nil
                    THEN [Fail(Wrap("malloc for string failed:", st.err),
                               Free(st.w, r.ptr, RetAreaSize).w) EXCEPT !.area = r.ptr]
                    ELSE LET wr == MemWrite(st.w.mem, st.ptr, data)
                             w1 == Logged([st.w EXCEPT !.mem = wr.mem], "privatekey_fromString",
                                          <<r.ptr, st.ptr, Len(data)>>)
                             c  == Guest_privatekey_fromString(w1, r.ptr, st.ptr, Len(data),
                                                               fault = "call", report)
                             rd == MemRead(c.w.mem, r.ptr, RetAreaSize)
                             used(o) == [o EXCEPT !.area = r.ptr, !.strPtr = st.ptr,
                                                  !.strLen = Len(data),
                                                  !.report = IF wr.ok /\ c.reported
                                                             THEN report ELSE NoReport]
                         IN IF ~wr.ok
                            THEN used(Fail(Errorf(<<"cannot write string bytes to wasm memory">>),
                                           FreeBoth(st.w, r.ptr, st.ptr, Len(data))))
                            ELSE IF ~CallErr(c).nil
                            THEN used(Fail(Wrap("privatekey_fromString failed:", CallErr(c)),
                                           FreeBoth(c.w, r.ptr, st.ptr, Len(data))))
                            ELSE IF ~rd.ok
                            THEN used(Fail(Errorf(<<"cannot read return area">>),
                                           FreeBoth(c.w, r.ptr, st.ptr, Len(data))))
                            ELSE used(FromStringResult(FreeBoth(c.w, r.ptr, st.ptr, Len(data)),
                                                       rd.bytes, order))

\* ---------------------------------------------------------------- import stub builder
SupportedModules == {"__wbindgen_placeholder__", "__wbindgen_externref_xform__"}

\* the import names the switch of InstantiateImportStubs has a case for
KnownNames ==
    {"__wbindgen_init_externref_table", "__wbindgen_object_clone_ref",
     "__wbindgen_object_drop_ref", "__wbindgen_externref_heap_live_count",
     "__wbg_randomFillSync_ac0988aba3254290", "__wbg_getRandomValues_b8f5dbd5f3995a9e",
     "__wbindgen_copy_to_typed_array", "__wbindgen_is_null", "__wbindgen_is_undefined",
     "__wbindgen_is_string", "__wbindgen_is_object", "__wbindgen_number_new",
     "__wbindgen_number_get", "__wbindgen_boolean_get",
     "__wbg_isSafeInteger_343e2beeeece1bb0", "__wbindgen_string_new",
     "__wbindgen_json_parse", "__wbindgen_json_serialize",
     "__wbindgen_uint8_array_new", "__wbindgen_uint8_clamped_array_new",
     "__wbindgen_uint16_array_new", "__wbindgen_uint32_array_new",
     "__wbindgen_biguint64_array_new", "__wbindgen_int8_array_new",
     "__wbindgen_int16_array_new", "__wbindgen_int32_array_new",
     "__wbindgen_bigint64_array_new", "__wbindgen_float32_array_new",
     "__wbindgen_float64_array_new", "__wbindgen_array_new",
     "__wbindgen_array_push", "__wbindgen_not", "__wbindgen_jsval_eq",
     "__wbindgen_jsval_loose_eq", "__wbindgen_is_function", "__wbindgen_is_array",
     "__wbindgen_is_symbol", "__wbindgen_is_bigint",
     "__wbg_newwithbyteoffsetandlength_d97e637ebe145a9a", "__wbg_set_65595bdd868b3009",
     "__wbg_subarray_aa9065fa9dc5df96",
     "__wbg_static_accessor_SELF_37c5d418e4bf5819",
     "__wbg_static_accessor_WINDOW_5de37043a91a9c40",
     "__wbg_static_accessor_GLOBAL_THIS_56578be7e9f832b0",
     "__wbg_static_accessor_GLOBAL_88a902d13a557d07", "__wbg_crypto_574e78ad8b13b65f",
     "__wbg_newwithlength_a381634e90c276d4", "__wbindgen_memory",
     "__wbg_buffer_609cc3eee51ed158", "__wbg_new_a12002a7f91c75be",
     "__wbg_new_405e22f390576ce2", "__wbg_set_3f1d0b984ed272ed",
     "__wbg_newnoargs_105ed471475aaf50", "__wbg_call_672a4d21634d4a24"}

\* the behaviour bound to an import name: its own case, or the default no-op
Role(name) == IF name \in KnownNames THEN name ELSE "passthrough"

RECURSIVE BindLoopMutant(_, _, _, _)
BindLoopMutant(defs, i, builders, stubs) ==
    IF i > Len(defs) THEN [err |-> NoError, builders |-> builders, stubs |-> stubs]
    ELSE IF ~defs[i].isImport \/ defs[i].mod \notin SupportedModules
    THEN BindLoopMutant(defs, i + 1, builders, stubs)
    ELSE BindLoopMutant(defs, i + 1, builders \cup {defs[i].mod},
                        stubs \cup {[mod |-> defs[i].mod, name |-> defs[i].name,
                                     role |-> Role(defs[i].name),
                                     params |-> defs[i].params,
                                     results |-> defs[i].results]})

RECURSIVE BindLoop(_, _, _, _)
\* the loop over the imports: builders are the host module builders created so
\* far, stubs the functions exported on them
BindLoop(defs, i, builders, stubs) ==
    IF i > Len(defs) THEN [err |-> NoError, builders |-> builders, stubs |-> stubs]
    ELSE IF ~defs[i].isImport THEN BindLoop(defs, i + 1, builders, stubs)
    ELSE IF defs[i].mod \notin SupportedModules
    THEN [err |-> Errorf(<<"unsupported import module:", defs[i].mod, defs[i].name>>),
          builders |-> builders, stubs |-> stubs]
    ELSE BindLoop(defs, i + 1, builders \cup {defs[i].mod},
                  stubs \cup {[mod |-> defs[i].mod, name |-> defs[i].name,
                               role |-> Role(defs[i].name),
                               params |-> defs[i].params,
                               results |-> defs[i].results]})

\* InstantiateImportStubs: the host modules are instantiated only after the
\* loop ran to its end
InstantiateImportStubs(defs) ==
    IF Len(defs) = 0 THEN [done |-> TRUE, err |-> NoError, instantiated |-> {}, stubs |-> {}]
    ELSE LET r == BindLoop(defs, 1, {}, {})
         IN IF ~r.err.nil
            THEN [done |-> TRUE, err |-> r.err, instantiated |-> {}, stubs |-> {}]
            ELSE [done |-> TRUE, err |-> NoError, instantiated |-> r.builders,
                  stubs |-> r.stubs]

\* ---------------------------------------------------------------- InitWasm
NotBound == [done |-> FALSE, err |-> NoError, instantiated |-> {}, stubs |-> {}]

NotBooted == [done |-> FALSE, panic |-> FALSE, guest |-> FALSE, steps |-> <<>>]

\* what can go wrong in InitWasm outside the stub builder
BootFaults == {"none", "read", "compile", "instantiate"}

Booted(panic, guest, steps, b) ==
    [boot |-> [done |-> TRUE, panic |-> panic, guest |-> guest, steps |-> steps],
     bind |-> b]

InitWasmMutant(defs, fault) ==
    IF fault = "read" THEN Booted(TRUE, FALSE, <<"ReadFile">>, NotBound)
    ELSE IF fault = "compile"
    THEN Booted(TRUE, FALSE, <<"ReadFile", "CompileModule">>, NotBound)
    ELSE LET b == InstantiateImportStubs(defs)
             upTo == <<"ReadFile", "CompileModule", "InstantiateImportStubs">>
         IN IF fault = "instantiate"
            THEN Booted(TRUE, FALSE, Append(upTo, "InstantiateModule"), b)
            ELSE Booted(FALSE, TRUE, Append(upTo, "InstantiateModule"), b)

\* InitWasm: read and compile the guest, bind its imports, instantiate it; every
\* failure ends in panic(nil)
InitWasm(defs, fault) ==
    IF fault = "read" THEN Booted(TRUE, FALSE, <<"ReadFile">>, NotBound)
    ELSE IF fault = "compile"
    THEN Booted(TRUE, FALSE, <<"ReadFile", "CompileModule">>, NotBound)
    ELSE LET b == InstantiateImportStubs(defs)
             upTo == <<"ReadFile", "CompileModule", "InstantiateImportStubs">>
         IN IF ~b.err.nil THEN Booted(TRUE, FALSE, upTo, b)
            ELSE IF fault = "instantiate"
            THEN Booted(TRUE, FALSE, Append(upTo, "InstantiateModule"), b)
            ELSE Booted(FALSE, TRUE, Append(upTo, "InstantiateModule"), b)

\* ---------------------------------------------------------------- calling an import
\* The value stack wazero hands to a Go host function: the parameters in the
\* first slots, and the results are read back from the first slots when the
\* function returns (object_clone_ref returns its argument by leaving slot 0
\* as it is). Slots for results beyond the parameters start as zero.
StackFor(params, results, args) ==
    [i \in 1 .. (IF params > results THEN params ELSE results) |->
        IF i <= params THEN args[i] ELSE 0]

ResultsOf(n, slots) == SubSeq(slots, 1, n)

\* the default case: the function body does nothing
Passthrough(stack) == stack

\* what the random source gave the last call: rand.Read returned (n, err)
\* after putting n bytes into the buffer
NoRand == [n |-> 0, err |-> FALSE, byte |-> 0]

NoRet == [name |-> "none", role |-> "none", args |-> <<>>, results |-> <<>>,
          fatal |-> FALSE, msg |-> <<>>, rnd |-> NoRand]

Ret(name, role, args, results) ==
    [name |-> name, role |-> role, args |-> args, results |-> results,
     fatal |-> FALSE, msg |-> <<>>, rnd |-> NoRand]


\* InitWasm runs once, at startup
BindImports ==
    /\ ~boot.done
    /\ \E fault \in BootFaults :
       \E o \in {InitWasm(imports, fault)} :
          /\ bind' = o.bind
          /\ boot' = o.boot
    /\ UNCHANGED <<facadeVars, imports, stubVars>>

\* uint32 arithmetic wraps
WordMod == 2 ^ WordBits

\* taHandleNext uint32 = 0x80000000: the first handle with the top bit set
TaHandleBase == 2 ^ (WordBits - 1)

\* the stub part of the state before any import was called

\* history: the table was initialized; the handles the interning stubs have
\* returned, in call order; the handles new-with-length has returned; the
\* handles of the records made by the view constructors and by subarray; the
\* (name, handle) pairs the environment probes have returned; the length each
\* handle returned by a typed array constructor was last constructed with
NoTrace == [init |-> FALSE, interned |-> <<>>, synthetic |-> {}, views |-> {},
            probes |-> {}, made |-> <<>>]

StubsIdle ==
    /\ taLen = <<>>
    /\ taHandleNext = TaHandleBase
    /\ globalObjHandle = 0
    /\ cryptoObjHandle = 0
    /\ ret = NoRet
    /\ trace = NoTrace

\* ---------------------------------------------------------------- import stubs
\* The package-level state the stubs work on, and the guest memory.
Pkg == [table |-> ExternrefTableMirror, mem |-> mem, taLen |-> taLen,
        taHandleNext |-> taHandleNext, global |-> globalObjHandle,
        crypto |-> cryptoObjHandle, intBits |-> intBits]

\* a stub returns: the state it leaves and the value stack
StubRet(st, stack) == [st |-> st, stack |-> stack, fatal |-> FALSE, msg |-> <<>>]

\* stack[i] = v, with the index of the Go code
SetSlot(stack, i, v) == [j \in 1 .. Len(stack) |-> IF j = i + 1 THEN v ELSE stack[j]]

\* var v any; if idx < len(ExternrefTableMirror) { v = ExternrefTableMirror[idx] }
Resolve(table, idx) == IF idx < Len(table) THEN table[idx + 1] ELSE Undefined


\* append v and return its index in slot 0
InternAndReturn(st, stack, v) ==
    LET t == Intern(st.table, v)
    IN StubRet([st EXCEPT !.table = t], SetSlot(stack, 0, Len(t) - 1))


Stub_object_drop_refMutant(st, stack) ==
    StubRet([st EXCEPT !.table = IF Len(@) > 0 THEN SubSeq(@, 1, Len(@) - 1) ELSE @],
            stack)

Stub_object_drop_ref(st, stack) == StubRet(st, stack)

\* `if int(idx) < len(ExternrefTableMirror) { v = ExternrefTableMirror[idx] }`:
\* where int has 32 bits, int(idx) is negative for an idx in the upper half of
\* the word range, the comparison holds and the index expression panics
AtInt(st, idx) ==
    IF idx < Len(st.table) THEN [panic |-> FALSE, v |-> st.table[idx + 1]]
    ELSE [panic |-> st.intBits = 32 /\ idx >= TaHandleBase, v |-> Undefined]

\* a run-time panic inside a host function
Panicked(st, stack) == [StubRet(st, stack) EXCEPT !.fatal = TRUE]

Stub_boolean_get(st, stack) ==
    LET a == AtInt(st, stack[1])
    IN IF a.panic THEN Panicked(st, stack)
       ELSE StubRet(st, SetSlot(stack, 0, IF a.v.t = "bool" /\ a.v.b THEN 1 ELSE 0))

Stub_number_getMutant(st, stack) ==
    LET a == AtInt(st, stack[1])
    IN IF a.panic THEN Panicked(st, stack)
       ELSE IF a.v.t = "number"
       THEN StubRet(st, SetSlot(SetSlot(stack, 0, 0), 1, 1))
       ELSE StubRet(st, SetSlot(SetSlot(stack, 0, 0), 1, 0))

\* __wbindgen_number_get: (f64, is_some) in the two result slots
Stub_number_get(st, stack) ==
    LET a == AtInt(st, stack[1])
    IN IF a.panic THEN Panicked(st, stack)
       ELSE IF a.v.t = "number"
       THEN StubRet(st, SetSlot(SetSlot(stack, 0, a.v.n), 1, 1))
       ELSE StubRet(st, SetSlot(SetSlot(stack, 0, 0), 1, 0))

\* ExternrefTableMirror[idx] = v
SetEntry(table, idx, v) == [i \in 1 .. Len(table) |-> IF i = idx + 1 THEN v ELSE table[i]]

Stub_array_pushMutant(st, stack) ==
    LET arr == AtInt(st, stack[1])
        val == AtInt(st, stack[2])
    IN IF arr.panic THEN Panicked(st, stack)
       ELSE IF arr.v.t # "array" THEN StubRet(st, stack)
       ELSE IF val.panic THEN Panicked(st, stack)
       ELSE StubRet([st EXCEPT !.table =
                        SetEntry(@, stack[1], [arr.v EXCEPT !.m = <<val.v>> \o @])],
                    stack)

\* __wbindgen_array_push (array, value): the elements of a []any are kept in
\* the m field of its entry
Stub_array_push(st, stack) ==
    LET arr == AtInt(st, stack[1])
        val == AtInt(st, stack[2])
    IN IF arr.panic THEN Panicked(st, stack)
       ELSE IF arr.v.t # "array" THEN StubRet(st, stack)
       ELSE IF val.panic THEN Panicked(st, stack)
       ELSE StubRet([st EXCEPT !.table =
                        SetEntry(@, stack[1], [arr.v EXCEPT !.m = Append(@, val.v)])],
                    stack)

\* __wbindgen_not
Stub_not(st, stack) ==
    LET a == AtInt(st, stack[1])
        truthy == CASE a.v.t = "bool" -> a.v.b
                    [] a.v.t = "string" -> a.v.s # <<>>
                    [] a.v.t = "number" -> a.v.n # 0
                    [] OTHER -> a.v.t # "undefined"
    IN IF a.panic THEN Panicked(st, stack)
       ELSE StubRet(st, SetSlot(stack, 0, IF truthy THEN 0 ELSE 1))

\* __wbindgen_jsval_eq / __wbindgen_jsval_loose_eq
Stub_jsval_eq(st, stack) ==
    LET a == AtInt(st, stack[1])
        b == AtInt(st, stack[2])
    IN IF a.panic \/ b.panic THEN Panicked(st, stack)
       ELSE StubRet(st, SetSlot(stack, 0, IF FormatV(a.v) = FormatV(b.v) THEN 1 ELSE 0))

\* m[k] = v on the list of (key, value) pairs
MapSet(m, k, v) ==
    IF \E i \in 1 .. Len(m) : m[i].k = k
    THEN [i \in 1 .. Len(m) |-> IF m[i].k = k THEN [k |-> k, v |-> v] ELSE m[i]]
    ELSE Append(m, [k |-> k, v |-> v])

\* __wbg_set_3f1d0b984ed272ed: Reflect.set(target, key, value)
Stub_reflect_set(st, stack) ==
    LET target == AtInt(st, stack[1])
        key    == AtInt(st, stack[2])
        val    == AtInt(st, stack[3])
        k      == IF key.v.t = "string" THEN key.v.s ELSE <<>>
    IN IF target.panic THEN Panicked(st, stack)
       ELSE IF stack[1] >= Len(st.table) THEN StubRet(st, SetSlot(stack, 0, 0))
       ELSE IF key.panic THEN Panicked(st, stack)
       ELSE IF target.v.t # "map" \/ k = <<>> THEN StubRet(st, SetSlot(stack, 0, 0))
       ELSE IF val.panic THEN Panicked(st, stack)
       ELSE StubRet([st EXCEPT !.table =
                        SetEntry(@, stack[1], [target.v EXCEPT !.m = MapSet(@, k, val.v)])],
                    SetSlot(stack, 0, 1))

Stub_string_new(st, stack) ==
    LET ptr == stack[1]
        ln  == stack[2]
        r   == MemRead(st.mem, ptr, ln)
    IN IF ln = 0 \/ ~r.ok THEN StubRet(st, SetSlot(stack, 0, 0))
       ELSE InternAndReturn(st, stack, String(r.bytes))

Stub_json_parse(st, stack) ==
    LET r == MemRead(st.mem, stack[1], stack[2])
    IN IF r.ok THEN InternAndReturn(st, stack, String(r.bytes))
       ELSE StubRet(st, SetSlot(stack, 0, 0))

Stub_static_accessor(st, stack) ==
    IF st.global = 0
    THEN LET t == Intern(st.table, Map(<<[k |-> <<95, 95, 107, 105, 110, 100>>,
                                            v |-> String(<<103, 108, 111, 98, 97, 108>>)]>>))
         IN StubRet([st EXCEPT !.table = t, !.global = Len(t) - 1],
                    SetSlot(stack, 0, Len(t) - 1))
    ELSE StubRet(st, SetSlot(stack, 0, st.global))

Stub_crypto(st, stack) ==
    IF st.crypto = 0
    THEN LET t == Intern(st.table, Map(<<[k |-> <<95, 95, 107, 105, 110, 100>>,
                                            v |-> String(<<99, 114, 121, 112, 116, 111>>)]>>))
         IN StubRet([st EXCEPT !.table = t, !.crypto = Len(t) - 1],
                    SetSlot(stack, 0, Len(t) - 1))
    ELSE StubRet(st, SetSlot(stack, 0, st.crypto))

GlobalAccessors ==
    {"__wbg_static_accessor_SELF_37c5d418e4bf5819",
     "__wbg_static_accessor_WINDOW_5de37043a91a9c40",
     "__wbg_static_accessor_GLOBAL_THIS_56578be7e9f832b0",
     "__wbg_static_accessor_GLOBAL_88a902d13a557d07"}

\* the function the switch binds to a role
TableStub(role, st, stack) ==
    CASE role = "__wbindgen_init_externref_table" ->
           StubRet([st EXCEPT !.table = InitExternrefTable(@)], stack)
      [] role = "__wbindgen_object_clone_ref" -> StubRet(st, SetSlot(stack, 0, stack[1]))
      [] role = "__wbindgen_object_drop_ref" -> Stub_object_drop_ref(st, stack)
      [] role = "__wbindgen_externref_heap_live_count" ->
           StubRet(st, SetSlot(stack, 0, Len(st.table)))
      [] role = "__wbindgen_is_null" ->
           StubRet(st, SetSlot(stack, 0,
                               IF Resolve(st.table, stack[1]).t = "null" THEN 1 ELSE 0))
      [] role = "__wbindgen_is_undefined" ->
           StubRet(st, SetSlot(stack, 0,
                               IF Resolve(st.table, stack[1]).t = "undefined" THEN 1 ELSE 0))
      [] role = "__wbindgen_is_string" ->
           StubRet(st, SetSlot(stack, 0,
                               IF Resolve(st.table, stack[1]).t = "string" THEN 1 ELSE 0))
      [] role = "__wbindgen_is_object" -> StubRet(st, SetSlot(stack, 0, 1))
      [] role = "__wbindgen_boolean_get" -> Stub_boolean_get(st, stack)
      [] role = "__wbindgen_number_new" -> InternAndReturn(st, stack, Number(stack[1]))
      [] role = "__wbindgen_number_get" -> Stub_number_get(st, stack)
      [] role = "__wbindgen_string_new" -> Stub_string_new(st, stack)
      [] role = "__wbindgen_json_parse" -> Stub_json_parse(st, stack)
      [] role = "__wbindgen_array_new" ->
           InternAndReturn(st, stack, Entry("array", FALSE, 0, <<>>, <<>>))
      [] role = "__wbindgen_array_push" -> Stub_array_push(st, stack)
      [] role = "__wbindgen_not" -> Stub_not(st, stack)
      [] role \in {"__wbindgen_jsval_eq", "__wbindgen_jsval_loose_eq"} ->
           Stub_jsval_eq(st, stack)
      [] role \in {"__wbg_new_a12002a7f91c75be", "__wbg_new_405e22f390576ce2"} ->
           InternAndReturn(st, stack, Map(<<>>))
      [] role = "__wbg_set_3f1d0b984ed272ed" -> Stub_reflect_set(st, stack)
      [] role \in GlobalAccessors -> Stub_static_accessor(st, stack)
      [] role = "__wbg_crypto_574e78ad8b13b65f" -> Stub_crypto(st, stack)
      [] OTHER -> StubRet(st, Passthrough(stack))

\* ln := taLen[arr]: a handle without a record reads as length 0
Lookup(tl, h) == IF h \in DOMAIN tl THEN tl[h] ELSE 0

\* taLen[h] = ln
Record(tl, h, ln) == (h :> ln) @@ tl

\* buf after rand.Read put n bytes into it: the loop zeroes the rest
RandBuf(ln, rnd) == [i \in 1 .. ln |-> IF i <= rnd.n THEN rnd.byte ELSE 0]

\* the shared body of the two entropy stubs: nothing for length 0, nothing
\* when rand.Read fails, and the result of mem.Write is dropped
FillAt(st, stack, off, ln, rnd) ==
    IF ln = 0 \/ rnd.err THEN StubRet(st, stack)
    ELSE StubRet([st EXCEPT !.mem = MemWrite(st.mem, off, RandBuf(ln, rnd)).mem], stack)



\* __wbg_set_65595bdd868b3009 (dst_array, src_handle, dst_ptr): the results of
\* a failed mem.Read and of mem.Write are dropped
Stub_set(st, stack) ==
    LET ln == Lookup(st.taLen, stack[2])
        r  == MemRead(st.mem, stack[2], ln)
    IN IF ln = 0 \/ ~r.ok THEN StubRet(st, stack)
       ELSE StubRet([st EXCEPT !.mem = MemWrite(st.mem, stack[3], r.bytes).mem], stack)

\* the typed array constructors (ptr, len)
Stub_typed_array_new(st, stack) ==
    StubRet([st EXCEPT !.taLen = Record(@, stack[1], stack[2])],
            SetSlot(stack, 0, stack[1]))

\* __wbg_newwithbyteoffsetandlength (buffer, byte_offset, length)
Stub_newwithbyteoffsetandlength(st, stack) ==
    StubRet([st EXCEPT !.taLen = Record(@, stack[2], stack[3])],
            SetSlot(stack, 0, stack[2]))

Stub_subarrayMutant(st, stack) ==
    LET base  == stack[1]
        begin == stack[2]
        end   == stack[3]
        newHandle == (base + begin) % WordMod
        l == IF end >= begin THEN end - begin ELSE begin - end
    IN StubRet([st EXCEPT !.taLen = Record(@, newHandle, l)],
               SetSlot(stack, 0, newHandle))

\* __wbg_subarray (base, begin, end)
Stub_subarray(st, stack) ==
    LET base  == stack[1]
        begin == stack[2]
        end   == stack[3]
        newHandle == (base + begin) % WordMod
        l == IF end >= begin THEN end - begin ELSE 0
    IN StubRet([st EXCEPT !.taLen = Record(@, newHandle, l)],
               SetSlot(stack, 0, newHandle))

\* __wbg_newwithlength (length)
Stub_newwithlength(st, stack) ==
    LET h == st.taHandleNext
    IN StubRet([st EXCEPT !.taHandleNext = (h + 1) % WordMod,
                          !.taLen = Record(@, h, stack[1])],
               SetSlot(stack, 0, h))

TypedArrayConstructors ==
    {"__wbindgen_uint8_array_new", "__wbindgen_uint8_clamped_array_new",
     "__wbindgen_uint16_array_new", "__wbindgen_uint32_array_new",
     "__wbindgen_biguint64_array_new", "__wbindgen_int8_array_new",
     "__wbindgen_int16_array_new", "__wbindgen_int32_array_new",
     "__wbindgen_bigint64_array_new", "__wbindgen_float32_array_new",
     "__wbindgen_float64_array_new"}

EntropyStubs ==
    {"__wbg_randomFillSync_ac0988aba3254290", "__wbg_getRandomValues_b8f5dbd5f3995a9e"}

\* the function the switch of InstantiateImportStubs binds to a name
Stub(role, st, stack, rnd) ==
    CASE role \in EntropyStubs ->
           \* (obj_handle, typed_array_handle)
           FillAt(st, stack, stack[2], Lookup(st.taLen, stack[2]), rnd)
      [] role = "__wbindgen_copy_to_typed_array" ->
           \* (src_handle, src_len, dst_ptr)
           FillAt(st, stack, stack[3], stack[2], rnd)
      [] role = "__wbg_set_65595bdd868b3009" -> Stub_set(st, stack)
      [] role \in TypedArrayConstructors -> Stub_typed_array_new(st, stack)
      [] role = "__wbg_newwithbyteoffsetandlength_d97e637ebe145a9a" ->
           Stub_newwithbyteoffsetandlength(st, stack)
      [] role = "__wbg_subarray_aa9065fa9dc5df96" -> Stub_subarray(st, stack)
      [] role = "__wbg_newwithlength_a381634e90c276d4" -> Stub_newwithlength(st, stack)
      [] OTHER -> TableStub(role, st, stack)

\* ---------------------------------------------------------------- actions
ExportNames ==
    {"keypair_new", "keypair_getPublicKey", "keypair_getPrivateKey", "keypair_fromPrivateKey",
     "privatekey_toString", "privatekey_fromString", "__wbindgen_malloc", "__wbindgen_free",
     "memory"}

\* the guest build exports everything the facade uses, or an older build
\* that lacks some of it
ExportChoices ==
    {ExportNames,
     ExportNames \ {"keypair_getPublicKey", "__wbindgen_free", "privatekey_fromString"}}

Faults == {"none", "malloc_ret", "malloc_str", "call"}

NoResult ==
    [op |-> "none", err |-> NoError, panic |-> FALSE, value |-> <<>>, key |-> 0,
     bound |-> FALSE, area |-> 0, strPtr |-> 0, strLen |-> 0, report |-> NoReport]

Result(op, o) ==
    [op |-> op, err |-> o.err, panic |-> o.panic, value |-> o.value,
     key |-> o.key, bound |-> o.bound, area |-> o.area, strPtr |-> o.strPtr,
     strLen |-> o.strLen, report |-> o.report]

\* an operation returns (or panics): the world it leaves and what the caller sees
Commit(op, o) ==
    /\ heap' = o.w.heap
    /\ mem' = o.w.mem
    /\ ExternrefTableMirror' = o.w.table
    /\ invalidFree' = o.w.bad
    /\ calls' = o.w.calls
    /\ crashed' = o.panic
    /\ last' = Result(op, o)

\* the error ends in "not initialized"
IsNotInitialized(err) ==
    /\ ~err.nil
    /\ Len(err.words) > 0
    /\ err.words[Len(err.words)] = "not initialized"
    /\ err.text = <<>>

New ==
    /\ ~crashed
    /\ \E alg \in Algorithms, key \in Keys, trap \in BOOLEAN :
         \E o \in {KeyPair_New(World, alg, key, trap)} :
            /\ Commit("KeyPair.New", o)
            /\ kp' = IF o.bound THEN o.key ELSE kp
    /\ UNCHANGED <<exports, priv, pub, hist, imports, bind, boot, stubVars>>

\* the caller keeps the returned key when the error is nil
GetPublicKey ==
    /\ ~crashed
    /\ \E o \in {KeyPair_GetPublicKey(World, kp, FALSE)} :
          /\ Commit("KeyPair.GetPublicKey", o)
          /\ pub' = IF o.err.nil /\ ~o.panic THEN o.key ELSE pub
    /\ UNCHANGED <<exports, kp, priv, hist, imports, bind, boot, stubVars>>

\* the caller keeps the returned key when the error is nil
GetPrivateKey ==
    /\ ~crashed
    /\ \E trap \in BOOLEAN :
         \E o \in {KeyPair_GetPrivateKey(World, kp, trap)} :
         LET keep == o.err.nil /\ ~o.panic
         IN /\ Commit("KeyPair.GetPrivateKey", o)
            /\ priv' = IF keep THEN o.key ELSE priv
            /\ hist' = [hist EXCEPT !.src = IF keep THEN <<>> ELSE @]
    /\ UNCHANGED <<exports, kp, pub, imports, bind, boot, stubVars>>

FromPrivateKey ==
    /\ ~crashed
    /\ \E trap \in BOOLEAN :
         \E o \in {KeyPair_FromPrivateKey(World, priv, trap)} :
            /\ Commit("KeyPair.FromPrivateKey", o)
            /\ kp' = IF o.bound THEN o.key ELSE kp
    /\ UNCHANGED <<exports, priv, pub, hist, imports, bind, boot, stubVars>>

PrivateKeyToString ==
    /\ ~crashed
    /\ \E fault \in Faults \ {"malloc_str"} :
         \E o \in {PrivateKey_ToString(World, priv, fault)} : Commit("PrivateKey.ToString", o)
    /\ UNCHANGED <<exports, kp, priv, pub, hist, imports, bind, boot, stubVars>>

PrivateKeyFromString ==
    /\ ~crashed
    /\ \E data \in ValidStrings \cup MalformedStrings, fault \in Faults :
       \E report \in IF data \in ValidStrings \/ fault # "none" THEN {NoReport} ELSE Reports :
       \E order \in IF report.entry.t = "map" THEN Perms(MaxFields) ELSE {<<>>} :
         \E o \in {PrivateKey_FromString(World, data, fault, report, order)} :
            /\ Commit("PrivateKey.FromString", o)
            /\ priv' = IF o.bound THEN o.key ELSE priv
            /\ hist' = [src |-> IF o.bound THEN data ELSE hist.src]
    /\ UNCHANGED <<exports, kp, pub, imports, bind, boot, stubVars>>

PublicKeyToString ==
    /\ ~crashed
    /\ \E o \in {PublicKey_ToString(World, pub)} : Commit("PublicKey.ToString", o)
    /\ UNCHANGED <<exports, kp, priv, pub, hist, imports, bind, boot, stubVars>>

Init ==
    /\ exports \in ExportChoices
    /\ kp = 0
    /\ priv = 0
    /\ pub = 0
    /\ heap = {}
    /\ mem = [a \in Addrs |-> 0]
    /\ ExternrefTableMirror = InitExternrefTable(<<>>)
    /\ invalidFree = FALSE
    /\ crashed = FALSE
    /\ last = NoResult
    /\ calls = <<>>
    /\ hist = [src |-> <<>>]
    /\ imports = <<>>
    /\ bind = InitWasm(imports, "none").bind
    /\ boot = InitWasm(imports, "none").boot
    /\ StubsIdle
    /\ intBits = 64

Next ==
    \/ New
    \/ GetPublicKey
    \/ GetPrivateKey
    \/ FromPrivateKey
    \/ PrivateKeyToString
    \/ PrivateKeyFromString
    \/ PublicKeyToString

Spec == Init /\ [][Next]_vars

\* ---------------------------------------------------------------- the guest calls its imports
InterningStubs ==
    {"__wbindgen_string_new", "__wbindgen_number_new", "__wbindgen_json_parse",
     "__wbindgen_array_new", "__wbg_new_a12002a7f91c75be", "__wbg_new_405e22f390576ce2"}

ViewStubs ==
    TypedArrayConstructors \cup {"__wbg_newwithbyteoffsetandlength_d97e637ebe145a9a",
                                 "__wbg_subarray_aa9065fa9dc5df96"}

\* the environment probes of the glue: global accessors, crypto, process,
\* versions, node, require
ProbeNames ==
    GlobalAccessors \cup
    {"__wbg_crypto_574e78ad8b13b65f", "__wbg_process_dc0fbacc7c1c06f7",
     "__wbg_versions_c01dfd4722a88165", "__wbg_node_905d3e251edff8a2",
     "__wbg_require_60cc747a6bc5215a"}

Traced(name, role, args, results) ==
    [init |-> trace.init \/ role = "__wbindgen_init_externref_table",
     interned |-> IF role \in InterningStubs
                  THEN Append(trace.interned, results[1]) ELSE trace.interned,
     synthetic |-> IF role = "__wbg_newwithlength_a381634e90c276d4"
                   THEN trace.synthetic \cup {results[1]} ELSE trace.synthetic,
     views |-> IF role \in ViewStubs THEN trace.views \cup {results[1]} ELSE trace.views,
     probes |-> IF name \in ProbeNames
                THEN trace.probes \cup {[name |-> name, handle |-> results[1]]}
                ELSE trace.probes,
     made |-> IF role \in TypedArrayConstructors
              THEN (results[1] :> args[2]) @@ trace.made ELSE trace.made]

\* the guest calls the import `name`: the function bound to it runs on the
\* stack built from the declared signature
CallImport(name, args, rnd) ==
    /\ boot.guest
    /\ \E stub \in bind.stubs :
          /\ stub.name = name
          /\ Len(args) = stub.params
          /\ \E o \in {Stub(stub.role, Pkg, StackFor(stub.params, stub.results, args), rnd)} :
                /\ ExternrefTableMirror' = o.st.table
                /\ mem' = o.st.mem
                /\ taLen' = o.st.taLen
                /\ taHandleNext' = o.st.taHandleNext
                /\ globalObjHandle' = o.st.global
                /\ cryptoObjHandle' = o.st.crypto
                /\ intBits' = intBits
                /\ ret' = [Ret(name, stub.role, args, ResultsOf(stub.results, o.stack))
                             EXCEPT !.fatal = o.fatal, !.msg = o.msg, !.rnd = rnd]
                /\ trace' = Traced(name, stub.role, args, ResultsOf(stub.results, o.stack))
    /\ UNCHANGED <<exports, kp, priv, pub, heap, invalidFree, crashed, last, calls,
                   hist, imports, bind, boot>>

\* calls so far that appended to the handle table
AppendCalls ==
    Len(trace.interned) + (IF globalObjHandle # 0 THEN 1 ELSE 0)
                        + (IF cryptoObjHandle # 0 THEN 1 ELSE 0)

\* handles the guest passes: a seeded one and the newest one
HandleArgs == {h \in {1, Len(ExternrefTableMirror) - 1} : h >= 0}

\* (ptr, len) of a text in guest memory, of an empty text, and of a range
\* outside guest memory
TextArgs == {<<0, 2>>, <<0, 0>>, <<MemSize, 1>>}

InitExternrefTableCall ==
    /\ ~trace.init
    /\ CallImport("__wbindgen_init_externref_table", <<>>, NoRand)

ObjectCloneRef ==
    \E h \in HandleArgs : CallImport("__wbindgen_object_clone_ref", <<h>>, NoRand)

ObjectDropRef ==
    \E h \in HandleArgs : CallImport("__wbindgen_object_drop_ref", <<h>>, NoRand)

LiveCount ==
    /\ boot.guest
    /\ CallImport("__wbindgen_externref_heap_live_count", <<>>, NoRand)

BooleanGet ==
    /\ boot.guest
    /\ \E h \in {0, 2, 3, TaHandleBase} : CallImport("__wbindgen_boolean_get", <<h>>, NoRand)

NumberNew ==
    /\ AppendCalls < MaxInterns
    /\ CallImport("__wbindgen_number_new", <<3>>, NoRand)

StringNew ==
    /\ AppendCalls < MaxInterns
    /\ \E a \in TextArgs : CallImport("__wbindgen_string_new", a, NoRand)

JsonParse ==
    /\ AppendCalls < MaxInterns
    /\ \E a \in TextArgs \ {<<0, 0>>} : CallImport("__wbindgen_json_parse", a, NoRand)

ArrayNew ==
    /\ AppendCalls < MaxInterns
    /\ CallImport("__wbindgen_array_new", <<>>, NoRand)

ObjectNew ==
    /\ AppendCalls < MaxInterns
    /\ CallImport("__wbg_new_405e22f390576ce2", <<>>, NoRand)

StaticAccessor ==
    /\ globalObjHandle # 0 \/ AppendCalls < MaxInterns
    /\ \E name \in GlobalAccessors : CallImport(name, <<>>, NoRand)

CryptoProbe ==
    /\ cryptoObjHandle # 0 \/ AppendCalls < MaxInterns
    /\ CallImport("__wbg_crypto_574e78ad8b13b65f", <<globalObjHandle>>, NoRand)

\* After init_externref_table on an empty table null is at handle 2, true at 3
\* and false at 4. The guest passes the handle of null, the newest handle, or a
\* handle in the upper half of the word range, which has no entry.
TypePredicate ==
    \E name \in {"__wbindgen_is_null", "__wbindgen_is_undefined", "__wbindgen_is_string",
                  "__wbindgen_is_object"},
       h \in {2, Len(ExternrefTableMirror) - 1, TaHandleBase} :
       CallImport(name, <<h>>, NoRand)

NumberGet ==
    /\ boot.guest
    /\ \E h \in {3, Len(ExternrefTableMirror) - 1, TaHandleBase} :
          CallImport("__wbindgen_number_get", <<h>>, NoRand)

\* one of the two newest entries takes the value of true (3), of the newest entry
\* or of a handle with no entry; a map is a reference in Go and a value here,
\* so the guest stores no container in another entry; an array takes MaxPush
\* elements
ArrayPush ==
    \E a \in {Len(ExternrefTableMirror) - 2, Len(ExternrefTableMirror) - 1, TaHandleBase},
       v \in {3, Len(ExternrefTableMirror) - 1, TaHandleBase} :
       /\ Len(Resolve(ExternrefTableMirror, a).m) < MaxPush
       /\ Resolve(ExternrefTableMirror, v).t \notin {"map", "array"}
       /\ CallImport("__wbindgen_array_push", <<a, v>>, NoRand)

Not ==
    /\ boot.guest
    /\ \E h \in {3, 4, Len(ExternrefTableMirror) - 1, TaHandleBase} :
          CallImport("__wbindgen_not", <<h>>, NoRand)

JsvalEq ==
    \E a \in {Len(ExternrefTableMirror) - 1, TaHandleBase},
       b \in {0, Len(ExternrefTableMirror) - 2, TaHandleBase} :
       CallImport("__wbindgen_jsval_eq", <<a, b>>, NoRand)

ReflectSet ==
    \E target \in {Len(ExternrefTableMirror) - 2, TaHandleBase},
       key \in {Len(ExternrefTableMirror) - 1, TaHandleBase},
       val \in {3, TaHandleBase} :
       CallImport("__wbg_set_3f1d0b984ed272ed", <<target, key, val>>, NoRand)

\* what rand.Read can do: fill the buffer, fill one byte of it, or fail
Rnds ==
    {[n |-> 2, err |-> FALSE, byte |-> 170], [n |-> 1, err |-> FALSE, byte |-> 170],
     [n |-> 0, err |-> TRUE, byte |-> 0]}

\* the guest records typed arrays of length 0 or 2, MaxRecords of them
TypedArrayNew ==
    /\ Cardinality(DOMAIN taLen) < MaxRecords
    /\ \E ln \in {0, 2} : CallImport("__wbindgen_uint8_array_new", <<2, ln>>, NoRand)

\* a view at an offset of its own, or at the offset the constructors use
NewWithByteOffsetAndLength ==
    /\ Cardinality(DOMAIN taLen) < MaxRecords
    /\ \E off \in {4, 2} :
          CallImport("__wbg_newwithbyteoffsetandlength_d97e637ebe145a9a", <<0, off, 1>>,
                     NoRand)

NewWithLength ==
    /\ Cardinality(DOMAIN taLen) < MaxRecords
    /\ \E ln \in {0, 2} : CallImport("__wbg_newwithlength_a381634e90c276d4", <<ln>>, NoRand)

\* the base is a recorded handle, an offset never recorded, or one near the
\* top of the word range
Subarray ==
    /\ Cardinality(DOMAIN taLen) < MaxRecords
    /\ \E base \in DOMAIN taLen \cup {100, WordMod - 10},
          r \in {<<10, 30>>, <<30, 10>>, <<0, 2>>} :
          CallImport("__wbg_subarray_aa9065fa9dc5df96", <<base, r[1], r[2]>>, NoRand)

RandomFill ==
    \E name \in EntropyStubs, arr \in DOMAIN taLen \cup {9}, rnd \in Rnds :
       CallImport(name, <<0, arr>>, rnd)

CopyToTypedArray ==
    /\ boot.guest
    /\ \E ln \in {0, 2}, dst \in {2, 16}, rnd \in Rnds :
          CallImport("__wbindgen_copy_to_typed_array", <<0, ln, dst>>, rnd)

TypedSet ==
    \E src \in DOMAIN taLen \cup {9}, dst \in {2, 16} :
       CallImport("__wbg_set_65595bdd868b3009", <<0, src, dst>>, NoRand)

\* the guest calls an import that was bound to the default no-op
CallPassthrough ==
    \E stub \in bind.stubs :
       /\ stub.role = "passthrough"
       /\ \E args \in [1 .. stub.params -> {0, 7}] : CallImport(stub.name, args, NoRand)


\* ---------------------------------------------------------------- binding at startup
\* import names with the signature (numbers of parameter and result slots) the
\* guest declares for them: one name with a case of its own, three without
ImportSigs ==
    {[name |-> "__wbindgen_string_new", params |-> 2, results |-> 1],
     [name |-> "__wbg_now_2c95c9de01293173", params |-> 0, results |-> 1],
     [name |-> "__wbg_process_dc0fbacc7c1c06f7", params |-> 1, results |-> 1],
     [name |-> "__wbindgen_throw", params |-> 2, results |-> 0]}


\* what CompiledModule.ImportedFunctions can hold
ImportDefs ==
    {[mod |-> m, name |-> sig.name, isImport |-> TRUE,
      params |-> sig.params, results |-> sig.results] :
        m \in SupportedModules \cup {"env"}, sig \in ImportSigs}
    \cup {[mod |-> "env", name |-> "local", isImport |-> FALSE,
           params |-> 0, results |-> 0]}

InitBind ==
    /\ imports \in UNION {[1 .. k -> ImportDefs] : k \in 0 .. MaxImports}
    /\ bind = NotBound
    /\ exports = ExportNames
    /\ kp = 0
    /\ priv = 0
    /\ pub = 0
    /\ heap = {}
    /\ mem = [a \in Addrs |-> 0]
    /\ ExternrefTableMirror = <<>>
    /\ invalidFree = FALSE
    /\ crashed = FALSE
    /\ last = NoResult
    /\ calls = <<>>
    /\ hist = [src |-> <<>>]
    /\ boot = NotBooted
    /\ StubsIdle
    /\ intBits = 64


SpecBind == InitBind /\ [][BindImports \/ CallPassthrough]_vars

\* ---------------------------------------------------------------- sessions of import calls
PlaceholderImport(name, params, results) ==
    [mod |-> "__wbindgen_placeholder__", name |-> name, isImport |-> TRUE,
     params |-> params, results |-> results]

\* the facade is not used during a session of import calls
FacadeIdle ==
    /\ exports = ExportNames
    /\ kp = 0
    /\ priv = 0
    /\ pub = 0
    /\ heap = {}
    /\ invalidFree = FALSE
    /\ crashed = FALSE
    /\ last = NoResult
    /\ calls = <<>>
    /\ hist = [src |-> <<>>]

\* the guest started with this import list
StartedWith(defs) ==
    /\ imports = defs
    /\ bind = InitWasm(defs, "none").bind
    /\ boot = InitWasm(defs, "none").boot

\* the handle-table imports of the glue, with the signatures it declares
TableImports ==
    <<PlaceholderImport("__wbindgen_init_externref_table", 0, 0),
      PlaceholderImport("__wbindgen_object_clone_ref", 1, 1),
      PlaceholderImport("__wbindgen_object_drop_ref", 1, 0),
      PlaceholderImport("__wbindgen_externref_heap_live_count", 0, 1),
      PlaceholderImport("__wbindgen_boolean_get", 1, 1),
      PlaceholderImport("__wbindgen_number_new", 1, 1),
      PlaceholderImport("__wbindgen_string_new", 2, 1),
      PlaceholderImport("__wbindgen_json_parse", 2, 1),
      PlaceholderImport("__wbindgen_array_new", 0, 1),
      PlaceholderImport("__wbg_new_405e22f390576ce2", 0, 1),
      PlaceholderImport("__wbg_static_accessor_SELF_37c5d418e4bf5819", 0, 1),
      PlaceholderImport("__wbg_static_accessor_GLOBAL_THIS_56578be7e9f832b0", 0, 1),
      PlaceholderImport("__wbg_crypto_574e78ad8b13b65f", 1, 1),
      PlaceholderImport("__wbg_process_dc0fbacc7c1c06f7", 1, 1),
      PlaceholderImport("__wbg_require_60cc747a6bc5215a", 0, 1)>>

\* guest memory holding the text "hi" at offset 0
TextMem == [a \in Addrs |-> IF a = 0 THEN 104 ELSE IF a = 1 THEN 105 ELSE 0]

InitTable ==
    /\ FacadeIdle
    /\ StartedWith(TableImports)
    /\ mem = TextMem
    /\ ExternrefTableMirror = <<>>
    /\ StubsIdle
    /\ intBits = 64

SpecTable ==
    InitTable /\ [][\/ InitExternrefTableCall
                     \/ ObjectCloneRef
                     \/ ObjectDropRef
                     \/ LiveCount
                     \/ BooleanGet
                     \/ NumberNew
                     \/ StringNew
                     \/ JsonParse
                     \/ ArrayNew
                     \/ ObjectNew
                     \/ StaticAccessor
                     \/ CryptoProbe
                     \/ CallPassthrough]_vars

\* a session on the values of the handle table, with the value imports of the
\* glue and the signatures it declares, after the start function of the glue
\* has called init_externref_table, on a build whose int has 32 or 64 bits
InitVal ==
    /\ FacadeIdle
    /\ StartedWith(TableImports \o
                   <<PlaceholderImport("__wbindgen_is_null", 1, 1),
                     PlaceholderImport("__wbindgen_is_undefined", 1, 1),
                     PlaceholderImport("__wbindgen_is_string", 1, 1),
                     PlaceholderImport("__wbindgen_is_object", 1, 1),
                     PlaceholderImport("__wbindgen_number_get", 1, 2),
                     PlaceholderImport("__wbindgen_array_push", 2, 0),
                     PlaceholderImport("__wbindgen_not", 1, 1),
                     PlaceholderImport("__wbindgen_jsval_eq", 2, 1),
                     PlaceholderImport("__wbg_set_3f1d0b984ed272ed", 3, 1)>>)
    /\ mem = TextMem
    /\ ExternrefTableMirror = InitExternrefTable(<<>>)
    /\ taLen = <<>>
    /\ taHandleNext = TaHandleBase
    /\ globalObjHandle = 0
    /\ cryptoObjHandle = 0
    /\ intBits \in {32, 64}
    /\ ret = NoRet
    /\ trace = [NoTrace EXCEPT !.init = TRUE]

SpecVal ==
    InitVal /\ [][\/ NumberNew
                   \/ StringNew
                   \/ ArrayNew
                   \/ ObjectNew
                   \/ TypePredicate
                   \/ NumberGet
                   \/ BooleanGet
                   \/ ArrayPush
                   \/ Not
                   \/ JsvalEq
                   \/ ReflectSet]_vars

\* the part of such a session that boxes numbers and grows sequences
SpecSeq ==
    InitVal /\ [][\/ NumberNew
                   \/ ArrayNew
                   \/ NumberGet
                   \/ ArrayPush]_vars

\* the typed-array imports of the glue, with the signatures it declares
TypedImports ==
    <<PlaceholderImport("__wbindgen_uint8_array_new", 2, 1),
      PlaceholderImport("__wbg_newwithbyteoffsetandlength_d97e637ebe145a9a", 3, 1),
      PlaceholderImport("__wbg_newwithlength_a381634e90c276d4", 1, 1),
      PlaceholderImport("__wbg_subarray_aa9065fa9dc5df96", 3, 1),
      PlaceholderImport("__wbg_randomFillSync_ac0988aba3254290", 2, 0),
      PlaceholderImport("__wbg_getRandomValues_b8f5dbd5f3995a9e", 2, 0),
      PlaceholderImport("__wbindgen_copy_to_typed_array", 3, 0),
      PlaceholderImport("__wbg_set_65595bdd868b3009", 3, 0)>>

InitTyped ==
    /\ FacadeIdle
    /\ StartedWith(TypedImports)
    /\ mem = [a \in Addrs |-> 1]
    /\ ExternrefTableMirror = <<>>
    /\ StubsIdle
    /\ intBits = 64

SpecSub ==
    InitTyped /\ [][\/ TypedArrayNew
                     \/ NewWithByteOffsetAndLength
                     \/ NewWithLength
                     \/ Subarray]_vars

SpecFill ==
    InitTyped /\ [][\/ TypedArrayNew
                     \/ NewWithByteOffsetAndLength
                     \/ NewWithLength
                     \/ RandomFill
                     \/ CopyToTypedArray
                     \/ TypedSet]_vars

\* ---------------------------------------------------------------- properties
KeyPairAccessors == {"KeyPair.GetPublicKey", "KeyPair.GetPrivateKey"}

\* the step is an accessor called on an Unbound object
UnboundAccessorStep ==
    \/ last'.op \in KeyPairAccessors /\ kp = 0
    \/ last'.op = "PrivateKey.ToString" /\ priv = 0
    \/ last'.op = "PublicKey.ToString" /\ pub = 0

\* C1: every accessor called on an Unbound key object (KeyPair.GetPublicKey,
\* KeyPair.GetPrivateKey, PrivateKey.ToString, PublicKey.ToString) fails with
\* a "not initialized" error and calls no guest export, the allocator included.
C1_UnboundAccessorNotInitialized ==
    [][UnboundAccessorStep =>
          /\ IsNotInitialized(last'.err)
          /\ ~last'.panic
          /\ calls' = <<>>
          /\ heap' = heap]_vars

C1_Witness ==
    /\ last.op = "PrivateKey.ToString"
    /\ priv = 0
    /\ IsNotInitialized(last.err)
    /\ calls = <<>>

\* C2: when the guest rejects the input of PrivateKey.FromString and reports a
\* string, FromString returns an error whose message is exactly that text and
\* leaves the object's handle as it was.
C2_RejectedInputSurfacesGuestText ==
    [][(last'.op = "PrivateKey.FromString" /\ last'.report.entry.t = "string") =>
          /\ last'.err = ErrorsNew(last'.report.entry.s)
          /\ ~last'.panic
          /\ priv' = priv]_vars

C2_Witness ==
    /\ last.op = "PrivateKey.FromString"
    /\ last.report.entry.t = "string"
    /\ last.err.text = <<101, 114>>
    /\ priv = 0

\* C3: a private key object built by FromString(s) from a string s the guest
\* exports gives s back from ToString; ToString fails there only when a guest
\* call fails.
C3_FromStringToStringRoundTrip ==
    (last.op = "PrivateKey.ToString" /\ hist.src # <<>>) =>
        /\ hist.src \in ValidStrings
        /\ ~last.panic
        /\ last.err.nil => last.value = hist.src
        /\ ~last.err.nil => last.err \in {WasmTrap, GetFunction("privatekey_toString"),
                                          GetFunction("__wbindgen_malloc"),
                                          GetFunction("__wbindgen_free")}

C3_Witness ==
    /\ last.op = "PrivateKey.ToString"
    /\ last.err.nil
    /\ hist.src = PrivString(1, 1)
    /\ last.value = PrivString(1, 1)

HostBlocks(h) == {b \in h : b.by = "host"}

\* C4: PrivateKey.ToString and PrivateKey.FromString free every block they
\* obtained from the guest allocator during the call, on every exit path.
C4_HostBlocksFreedOnReturn ==
    [][(last'.op \in {"PrivateKey.ToString", "PrivateKey.FromString"}
        /\ "__wbindgen_free" \in exports) =>
          HostBlocks(heap') \subseteq HostBlocks(heap)]_vars

\* C5: on success PrivateKey.ToString yields exactly the bytes of the guest's
\* string and has freed both the guest's string buffer and the 8-byte return
\* area before it returns.
C5_ToStringFreesBufferAndArea ==
    (last.op = "PrivateKey.ToString" /\ last.err.nil /\ ~last.panic
     /\ "__wbindgen_free" \in exports) =>
        /\ last.value = PrivString(HandleAlg(priv), HandleKey(priv))
        /\ last.strLen = Len(last.value)
        /\ \A b \in heap : b.ptr # last.strPtr /\ b.ptr # last.area

\* C6: whenever the guest sets the is-error flag, PrivateKey.FromString returns
\* an error for every value of the error handle (a string, a field map, another
\* variant, no entry at all) and neither binds the object nor faults.
C6_ErrorFlagAlwaysSurfacesFailure ==
    (last.op = "PrivateKey.FromString" /\ last.report # NoReport) =>
        /\ ~last.panic
        /\ ~last.err.nil
        /\ ~last.bound

\* C7: Bound is terminal: once the key pair or the private key object holds a
\* nonzero guest handle, no operation, successful or failed, puts it back to 0.
C7_BoundIsTerminal ==
    [][(kp # 0 => kp' # 0) /\ (priv # 0 => priv' # 0)]_vars

C7_Witness ==
    /\ last.op = "PrivateKey.FromString"
    /\ ~last.err.nil
    /\ last.report # NoReport
    /\ priv # 0

\* C8: on a Bound key pair whose export exists, GetPublicKey and GetPrivateKey
\* each make one guest call passing the key pair's handle and return a key
\* bound to the returned handle or an error, never success with an Unbound key.
C8_BoundAccessorsCallGuest ==
    /\ (last.op = "KeyPair.GetPublicKey" /\ kp # 0 /\ "keypair_getPublicKey" \in exports) =>
          /\ calls = <<[fn |-> "keypair_getPublicKey", args |-> <<kp>>]>>
          /\ ~last.panic
          /\ last.err.nil => last.key # 0
    /\ (last.op = "KeyPair.GetPrivateKey" /\ kp # 0 /\ "keypair_getPrivateKey" \in exports) =>
          /\ calls = <<[fn |-> "keypair_getPrivateKey", args |-> <<kp>>]>>
          /\ ~last.panic
          /\ last.err.nil => last.key # 0

\* C9: a not-initialized failure is recovered locally: the failed accessor
\* changes nothing but what it returns, and the constructor of the object can
\* still bind it afterwards.
C9_NotInitializedIsRecoverable ==
    [][UnboundAccessorStep =>
          /\ IsNotInitialized(last'.err)
          /\ UNCHANGED <<exports, kp, priv, pub, heap, mem, ExternrefTableMirror,
                         invalidFree, crashed, hist>>
          /\ (last'.op \in KeyPairAccessors /\ exports = ExportNames) =>
                \E alg \in Algorithms, key \in Keys :
                    /\ KeyPair_New(World, alg, key, FALSE).bound
                    /\ KeyPair_New(World, alg, key, FALSE).key # 0
          /\ (last'.op = "PrivateKey.ToString" /\ exports = ExportNames) =>
                \E data \in ValidStrings :
                    /\ PrivateKey_FromString(World, data, "none", NoReport, <<>>).bound
                    /\ PrivateKey_FromString(World, data, "none", NoReport, <<>>).key # 0]_vars

C9_Witness ==
    /\ IsNotInitialized(last.err)
    /\ last.op = "KeyPair.GetPrivateKey"
    /\ kp = 0
    /\ exports = ExportNames

UnsupportedImport(i) ==
    /\ i \in 1 .. Len(imports)
    /\ imports[i].isImport
    /\ imports[i].mod \notin SupportedModules

\* positions of the __wbindgen_free calls in a call log
FreeCalls(log) == {i \in DOMAIN log : log[i].fn = "__wbindgen_free"}

\* C27: on every path of PrivateKey.FromString past both allocations, the
\* 16-byte return area and the input-string buffer are each freed exactly once
\* with the size they were allocated with before FromString returns: the two
\* releases come after the guest call that uses the buffers, none of them
\* releases a block that is not allocated, and no host block is left behind.
C27_FromStringFreesBothOnce ==
    [][(last'.op = "PrivateKey.FromString" /\ last'.strPtr # 0) =>
          /\ Cardinality(FreeCalls(calls')) = 2
          /\ \E i, j \in FreeCalls(calls') :
                /\ i < j
                /\ calls'[i].args = <<last'.area, RetAreaSize, 1>>
                /\ calls'[j].args = <<last'.strPtr, last'.strLen, 1>>
                /\ \A k \in DOMAIN calls' \ {i, j} : k < i
          /\ invalidFree' = invalidFree
          /\ \A b \in heap' \ heap : b.by # "host"]_vars

\* FromString fails after the guest call trapped, with both blocks released
C27_Witness ==
    /\ last.op = "PrivateKey.FromString"
    /\ last.strPtr # 0
    /\ last.strLen > 0
    /\ ~last.err.nil
    /\ Len(calls) = 5
    /\ calls[3].fn = "privatekey_fromString"
    /\ FreeCalls(calls) = {4, 5}
    /\ ~invalidFree

\* C29: KeyPair.FromPrivateKey with an Unbound private key (handle 0) fails
\* without a guest call and leaves the handle of the key pair as it was.
C29_UnboundPrivateKeyNoGuestCall ==
    [][(last'.op = "KeyPair.FromPrivateKey" /\ priv = 0) =>
          /\ ~last'.err.nil
          /\ calls' = <<>>
          /\ kp' = kp]_vars

\* C10: InstantiateImportStubs returns a binding error and instantiates no
\* host module whenever some import's namespace is neither
\* __wbindgen_placeholder__ nor __wbindgen_externref_xform__, wherever that
\* import stands in the list.
C10_UnsupportedNamespaceFailsBinding ==
    (bind.done /\ \E i \in 1 .. Len(imports) : UnsupportedImport(i)) =>
        /\ ~bind.err.nil
        /\ bind.err.words[1] = "unsupported import module:"
        /\ bind.instantiated = {}

C10_Witness ==
    /\ bind.done
    /\ Len(imports) = 3
    /\ imports[1].isImport /\ imports[1].mod = "__wbindgen_placeholder__"
    /\ imports[2].isImport /\ imports[2].mod = "__wbindgen_externref_xform__"
    /\ UnsupportedImport(3)
    /\ ~bind.err.nil
    /\ bind.instantiated = {}

\* the imports of a supported namespace that match no case of the switch
Unmatched(i) ==
    /\ i \in 1 .. Len(imports)
    /\ imports[i].isImport
    /\ imports[i].mod \in SupportedModules
    /\ imports[i].name \notin KnownNames

\* C11: when every import is of a supported namespace, binding succeeds and
\* each import whose name matches no known role is bound to a no-op with the
\* declared signature; a call of such a no-op returns with one result per
\* declared result and every result slot zero.
C11_UnmatchedImportIsZeroingNoOp ==
    /\ (bind.done /\ ~\E i \in 1 .. Len(imports) : UnsupportedImport(i)) =>
          /\ bind.err.nil
          /\ \A i \in 1 .. Len(imports) : Unmatched(i) =>
                [mod |-> imports[i].mod, name |-> imports[i].name, role |-> "passthrough",
                 params |-> imports[i].params, results |-> imports[i].results]
                    \in bind.stubs
    /\ ret.role = "passthrough" =>
          /\ \E stub \in bind.stubs :
                stub.name = ret.name /\ Len(ret.results) = stub.results
          /\ \A k \in 1 .. Len(ret.results) : ret.results[k] = 0

\* position of a step in the log of InitWasm, 0 if it did not happen
StepAt(name) ==
    IF \E k \in 1 .. Len(boot.steps) : boot.steps[k] = name
    THEN CHOOSE k \in 1 .. Len(boot.steps) : boot.steps[k] = name
    ELSE 0

\* C12: InitWasm instantiates the guest module only after
\* InstantiateImportStubs has returned without error, with a stub bound for
\* every import of the compiled module; when stub binding fails the guest is
\* never instantiated.
C12_GuestInstantiatedAfterStubs ==
    /\ StepAt("InstantiateModule") > 0 =>
          /\ StepAt("InstantiateImportStubs") > 0
          /\ StepAt("InstantiateImportStubs") < StepAt("InstantiateModule")
          /\ bind.done /\ bind.err.nil
          /\ \A i \in 1 .. Len(imports) : imports[i].isImport =>
                /\ imports[i].mod \in bind.instantiated
                /\ \E stub \in bind.stubs :
                      stub.mod = imports[i].mod /\ stub.name = imports[i].name
    /\ boot.guest => StepAt("InstantiateModule") > 0
    /\ (bind.done /\ ~bind.err.nil) =>
          /\ ~boot.guest
          /\ StepAt("InstantiateModule") = 0

C12_Witness ==
    /\ boot.guest
    /\ Len(imports) = 3
    /\ \A i \in 1 .. 3 : imports[i].isImport
    /\ imports[1].mod # imports[2].mod
    /\ Cardinality(bind.stubs) = 3

\* ---------------------------------------------------------------- handle table

\* C13: once __wbindgen_init_externref_table has run, handle 0 resolves to
\* Undefined, handle 1 to Null, handle 2 to True and handle 3 to False, and
\* they keep resolving so whatever is interned afterwards.
C13_ReservedHandles ==
    trace.init =>
        /\ Resolve(ExternrefTableMirror, 0) = Undefined
        /\ Resolve(ExternrefTableMirror, 1) = JsNull
        /\ Resolve(ExternrefTableMirror, 2) = Bool(TRUE)
        /\ Resolve(ExternrefTableMirror, 3) = Bool(FALSE)

\* C14: every interning call (string_new, number_new, json_parse, array_new,
\* object new) returns a handle strictly greater than every handle an
\* interning call returned before it.
C14_InternStrictlyMonotonic ==
    \A i, j \in 1 .. Len(trace.interned) :
       i < j => trace.interned[i] < trace.interned[j]

\* C15: the handle table is append-only: no call shrinks it or changes the
\* variant an index resolves to; object_drop_ref leaves the table as it was,
\* object_clone_ref returns the handle it was given, and
\* externref_heap_live_count returns the size of the table.
C15_TableAppendOnly ==
    [][/\ Len(ExternrefTableMirror') >= Len(ExternrefTableMirror)
       /\ \A i \in 1 .. Len(ExternrefTableMirror) :
             ExternrefTableMirror'[i].t = ExternrefTableMirror[i].t
       /\ ret'.name = "__wbindgen_object_drop_ref" =>
             ExternrefTableMirror' = ExternrefTableMirror
       /\ ret'.name = "__wbindgen_object_clone_ref" =>
             /\ ret'.results = ret'.args
             /\ ExternrefTableMirror' = ExternrefTableMirror
       /\ ret'.name = "__wbindgen_externref_heap_live_count" =>
             ret'.results = <<Len(ExternrefTableMirror)>>]_vars

\* the newest interned handle was dropped and the table still holds it
C15_Witness ==
    /\ ret.name = "__wbindgen_object_drop_ref"
    /\ trace.init
    /\ Len(trace.interned) = MaxInterns
    /\ ret.args = <<Len(ExternrefTableMirror) - 1>>
    /\ Resolve(ExternrefTableMirror, ret.args[1]).t # "undefined"

\* C20: every environment probe returns a nonzero handle that resolves to
\* neither Null nor Undefined, and a probe returns the same handle on every
\* call of the session.
C20_ProbesStableNonNull ==
    /\ \A p \in trace.probes :
          /\ p.handle # 0
          /\ Resolve(ExternrefTableMirror, p.handle).t \notin {"null", "undefined"}
    /\ \A p, q \in trace.probes : p.name = q.name => p.handle = q.handle

\* ---------------------------------------------------------------- typed arrays

\* C16: a random fill on a handle recorded with length L, and a
\* copy_to_typed_array of length L to a destination pointer, writes exactly the
\* L bytes of the random buffer at the destination offset and changes no other
\* guest byte; with L = 0 guest memory is unchanged.
C16_FillWritesExactlyL ==
    [][LET fill == ret'.role \in EntropyStubs
           copy == ret'.role = "__wbindgen_copy_to_typed_array"
           off  == IF fill THEN ret'.args[2] ELSE ret'.args[3]
           L    == IF fill THEN Lookup(taLen, ret'.args[2]) ELSE ret'.args[2]
       IN (fill \/ copy) =>
             /\ L > 0 => off + L <= MemSize
             /\ \A a \in Addrs :
                   mem'[a] = IF a >= off /\ a < off + L
                             THEN RandBuf(L, ret'.rnd)[a - off + 1]
                             ELSE mem[a]]_vars

C22_SetCopiesRecordedLength ==
    [][LET src == ret'.args[2]
           dst == ret'.args[3]
           L   == Lookup(taLen, src)
       IN (ret'.role = "__wbg_set_65595bdd868b3009" /\ src \in DOMAIN taLen) =>
             /\ L > 0 => src + L <= MemSize /\ dst + L <= MemSize
             /\ \A a \in Addrs :
                   mem'[a] = IF a >= dst /\ a < dst + L THEN mem[src + (a - dst)]
                             ELSE mem[a]]_vars

\* C28: the length recorded for a typed-array handle is stable: a random fill
\* or a set on a handle h that a constructor returned for length n uses n
\* bytes, whatever typed arrays were created since.
C28_RecordedLengthStable ==
    [][LET h == ret'.args[2]
       IN ((ret'.role \in EntropyStubs \/ ret'.role = "__wbg_set_65595bdd868b3009")
           /\ h \in DOMAIN trace.made) =>
             Lookup(taLen, h) = trace.made[h]]_vars

\* ---------------------------------------------------------------- values

\* C24: for every readable (ptr, len), len = 0 included, string_new returns a
\* handle whose entry is the String of the len bytes at ptr, so that is_string
\* answers 1 for it.
C24_StringNewInterns ==
    [][LET r == MemRead(mem, ret'.args[1], ret'.args[2])
           h == ret'.results[1]
       IN (ret'.role = "__wbindgen_string_new" /\ r.ok) =>
             /\ h < Len(ExternrefTableMirror')
             /\ ExternrefTableMirror'[h + 1] = String(r.bytes)]_vars

\* C17 as stated: subarray(base, begin, end) returns the handle base+begin.
C17_SubarrayHandleIsSum ==
    ret.role = "__wbg_subarray_aa9065fa9dc5df96" =>
        ret.results = <<ret.args[1] + ret.args[2]>>

\* C17: subarray(base, begin, end) returns the handle base+begin reduced to the
\* width of a word, and records for it the length end-begin when end >= begin
\* and 0 otherwise.
C17_SubarrayHandleAndLength ==
    ret.role = "__wbg_subarray_aa9065fa9dc5df96" =>
        LET base  == ret.args[1]
            begin == ret.args[2]
            end   == ret.args[3]
            h     == (base + begin) % WordMod
        IN /\ ret.results = <<h>>
           /\ h \in DOMAIN taLen
           /\ taLen[h] = IF end >= begin THEN end - begin ELSE 0

\* subarray(100, 10, 30) gave handle 110 with length 20, and then
\* subarray(100, 30, 10) gave handle 130 with length 0
C17_Witness ==
    /\ ret.role = "__wbg_subarray_aa9065fa9dc5df96"
    /\ ret.args = <<100, 30, 10>>
    /\ ret.results = <<130>>
    /\ taLen = (110 :> 20) @@ (130 :> 0)

\* C18: no synthetic handle returned by new-with-length is also the handle of
\* a record made by a typed array constructor, by
\* new-with-byte-offset-and-length or by subarray.
C18_HandleSpacesDisjoint == trace.synthetic \cap trace.views = {}

\* ---------------------------------------------------------------- throw

\* C19: a call of the throw import escalates a fatal failure that carries the
\* message read from guest memory at (ptr, len); it never returns normally.
C19_ThrowIsFatal ==
    ret.name = "__wbindgen_throw" =>
        /\ ret.fatal
        /\ ret.msg = MemRead(mem, ret.args[1], ret.args[2]).bytes

\* C23: the type predicates answer from the variant stored at the handle:
\* is_null 1 exactly for Null, is_undefined 1 exactly for Undefined, is_string
\* 1 exactly for a String, is_object 1 exactly for a Map or a Sequence.
C23_TypePredicates ==
    [][LET t == Resolve(ExternrefTableMirror, ret'.args[1]).t
           answer(yes) == ret'.results = <<IF yes THEN 1 ELSE 0>>
       IN /\ ret'.role = "__wbindgen_is_null" => answer(t = "null")
          /\ ret'.role = "__wbindgen_is_undefined" => answer(t = "undefined")
          /\ ret'.role = "__wbindgen_is_string" => answer(t = "string")
          /\ ret'.role = "__wbindgen_is_object" => answer(t \in {"map", "array"})]_vars

\* C25: number_get on the handle number_new(x) has just returned yields
\* (x, present); number_get on a handle whose entry is a Number yields that
\* number, and on a handle whose entry is not a Number it yields absent.
C25_NumberRoundTrip ==
    [][ret'.role = "__wbindgen_number_get" =>
          LET h == ret'.args[1]
          IN /\ (ret.role = "__wbindgen_number_new" /\ ret.results = <<h>>) =>
                   ret'.results = <<ret.args[1], 1>>
             /\ h < Len(ExternrefTableMirror) =>
                   IF ExternrefTableMirror[h + 1].t = "number"
                   THEN ret'.results = <<ExternrefTableMirror[h + 1].n, 1>>
                   ELSE ret'.results[2] = 0]_vars

\* number_get answered (3, present) right after number_new(3)
C25_Witness ==
    /\ ret.role = "__wbindgen_number_get"
    /\ ret.args = <<Len(ExternrefTableMirror) - 1>>
    /\ ExternrefTableMirror[Len(ExternrefTableMirror)] = Number(3)
    /\ ret.results = <<3, 1>>

\* C26: array_new interns an empty sequence; array_push(h, v) on a Sequence h
\* appends the value of v after the values pushed before, and leaves the size
\* of the table and every other entry as they were; array_push on a handle
\* that is not a Sequence changes nothing.
C26_SequenceGrowsInOrder ==
    [][/\ ret'.role = "__wbindgen_array_new" =>
             ExternrefTableMirror'[ret'.results[1] + 1].m = <<>>
       /\ ret'.role = "__wbindgen_array_push" =>
             LET h == ret'.args[1]
                 v == ret'.args[2]
                 e == Resolve(ExternrefTableMirror, h)
             IN /\ Len(ExternrefTableMirror') = Len(ExternrefTableMirror)
                /\ \A i \in 1 .. Len(ExternrefTableMirror) :
                      i # h + 1 => ExternrefTableMirror'[i] = ExternrefTableMirror[i]
                /\ e.t # "array" => ExternrefTableMirror' = ExternrefTableMirror
                /\ (e.t = "array" /\ v < Len(ExternrefTableMirror)) =>
                      ExternrefTableMirror'[h + 1] =
                         [e EXCEPT !.m = Append(@, ExternrefTableMirror[v + 1])]]_vars

\* a sequence holds two different values in the order they were pushed
C26_Witness ==
    /\ ret.role = "__wbindgen_array_push"
    /\ ret.args[2] = 3
    /\ LET e == Resolve(ExternrefTableMirror, ret.args[1])
       IN /\ e.t = "array"
          /\ Len(e.m) = 2
          /\ e.m[1].t = "number"
          /\ e.m[2] = Bool(TRUE)

\* the stubs that take handle arguments
HandleStubs ==
    {"__wbindgen_is_null", "__wbindgen_is_undefined", "__wbindgen_is_string",
     "__wbindgen_number_get", "__wbindgen_boolean_get", "__wbindgen_array_push",
     "__wbindgen_not", "__wbindgen_jsval_eq", "__wbg_set_3f1d0b984ed272ed"}

\* C30: a stub called with a handle that has no entry does not fault and
\* treats the handle as Undefined: is_undefined and not answer 1, is_null,
\* is_string and boolean_get answer 0, number_get answers absent, jsval_eq
\* answers 1 for two handles without entry; the size of the table stays, and
\* when the first handle has no entry the table is unchanged.
C30_MissingHandleIsUndefined ==
    [][LET missing(i) == ret'.args[i] >= Len(ExternrefTableMirror)
       IN (ret'.role \in HandleStubs /\ \E i \in DOMAIN ret'.args : missing(i)) =>
             /\ ~ret'.fatal
             /\ Len(ExternrefTableMirror') = Len(ExternrefTableMirror)
             /\ missing(1) => ExternrefTableMirror' = ExternrefTableMirror
             /\ ret'.role \in {"__wbindgen_is_undefined", "__wbindgen_not"} =>
                   ret'.results = <<1>>
             /\ ret'.role \in {"__wbindgen_is_null", "__wbindgen_is_string",
                                "__wbindgen_boolean_get"} => ret'.results = <<0>>
             /\ ret'.role = "__wbindgen_number_get" => ret'.results[2] = 0
             /\ (ret'.role = "__wbindgen_jsval_eq" /\ missing(1) /\ missing(2)) =>
                   ret'.results = <<1>>
             /\ (ret'.role = "__wbg_set_3f1d0b984ed272ed" /\ (missing(1) \/ missing(2))) =>
                   ret'.results = <<0>>]_vars
====
